---- MODULE Spec2Model ----
(***************************************************************************)
(* Model of the download executor of winezer0/downtools.                   *)
(*                                                                         *)
(* Two revisions of DownloadFile live in the repository and both are       *)
(* modelled; the variable `variant` says which one a call runs:            *)
(*   "downfile"  - src/downfile/downloader.go + src/downfile/downtracker.go *)
(*                 (copyBuffer, MonitorSpeed cancelling on one low tick)   *)
(*   "downutils" - src/unnamed/part_004 (copyBufferWithContext,            *)
(*                 MonitorSpeed with LowSpeedCount / LowSpeedDuration)     *)
(*                                                                         *)
(* A call of DownloadFile is cut into steps (pc) at every point where the  *)
(* file system changes or where the MonitorSpeed / DisplayProgress         *)
(* goroutines can interleave with it.  Results of the operating system and *)
(* of the HTTP stack (errors, status codes, read and write results) are    *)
(* inputs, drawn with \E.                                                  *)
(*                                                                         *)
(* Four specifications share the variables:                                *)
(*   Spec        - calls of DownloadFile with its two goroutines           *)
(*   SpecTracker - a client of the exported tracker API and of the         *)
(*                 CountingWriter over a sink of its own                   *)
(*   SpecMain    - DownloadFile as processGroup of src/main.go calls it,   *)
(*                 under the context main creates                          *)
(*   SpecOrch    - the loops of ProcessDownItems and processGroup, a call  *)
(*                 of DownloadFile being one step                          *)
(*                                                                         *)
(* Numbers: byte counts are integers; Speed (a float64 in the source) is   *)
(* kept as an integer number of bytes per second, rounded down.            *)
(***************************************************************************)
EXTENDS Integers, Sequences, FiniteSets, TLC

\* ------------------------------------------------------------------------
\* Bounds of the model
MaxCalls == 2        \* number of DownloadFile calls in one behaviour
MaxBody == 1         \* largest response body, in full buffers
MaxSamples == 1      \* sampler ticks (updateSpeed calls) per session
MaxWrites == 2       \* CountingWriter.Write calls of an API client
MaxChunk == 2        \* longest byte slice given to one Write or got from one Read
MaxItems == 2        \* items of a configuration group
MaxUrls == 2         \* download-urls of one item
MaxRetries == 2      \* largest configured number of retries
MaxTicks == 3        \* updateSpeed calls of the sampling harness
MaxGroups == 2       \* configuration groups of main
MaxReads == 3        \* src.Read calls of one copy
MaxPaths == 2        \* file paths known to the cache
MaxHours == 3        \* hours the clock runs
MaxOps == 2          \* cache operations of one run
MaxSlots == 3        \* entries of the download directory

\* ------------------------------------------------------------------------
\* Program constants
MinRequiredSpeed == 1024
SpeedCheckInterval == 5
ProgressUpdateInterval == 500
DownloadBufferSize == 32768
LowSpeedDuration == 15
StatusNotFound == 404

\* an error made with fmt.Errorf, or passed on as it came: not a DownloadError
GenericError == "error"
ErrResourceNotFound == "RESOURCE_NOT_FOUND"
ErrLowSpeed == "DOWNLOAD_SPEED_TOO_LOW"

\* ------------------------------------------------------------------------
\* File contents.  A file is [xfer, written, total]: the transfer that wrote
\* it, the bytes it holds and the length of that transfer's response body.
Absent == [xfer |-> -1, written |-> 0, total |-> 0]
PreFile == [xfer |-> 0, written |-> 1, total |-> 1]
PreOld == [xfer |-> 0, written |-> 2, total |-> 2]
EmptyFile(n, len) == [xfer |-> n, written |-> 0, total |-> len]

\* FileExists: os.Stat does not report "not exist"
FileExists(f) == f # Absent

VARIABLES
    variant,          \* revision of DownloadFile the current call runs
    keepOldFile,      \* argument of the current call
    callNo,           \* number of calls started; names the temp file
    pc,               \* position of the current call
    ret,              \* result of the last finished call ("running" inside)
    dest,             \* file at storePath
    old,              \* file at storePath + ".old"
    temps,            \* temps[n]: file at storePath.<nanos of call n>.download
    downloadSuccess,  \* local flag read by the deferred cleanup
    bodyLeft,         \* bytes of the response body not yet read
    err,              \* error returned by the copy loop
    BytesCount,       \* tracker.BytesCount
    LastSize,         \* tracker.LastSize
    Speed,            \* tracker.Speed
    LowSpeedCount,    \* tracker.LowSpeedCount (downutils revision only)
    Done,             \* tracker.Done is closed
    CtxDone,          \* tracker.Ctx is cancelled
    CancelReason,     \* tracker.CancelReason
    monitor,          \* MonitorSpeed goroutine: "none", "running", "returned"
    progress,         \* DisplayProgress goroutine: same values
    \* history variables, read by the properties only
    destBefore,       \* dest when the current call started
    oldBefore,        \* old when the current call started
    prevRet,          \* result of the call before the current one
    cancelCalls,      \* calls of tracker.Cancel in the session
    lowTicks,         \* consecutive MonitorSpeed ticks that saw Speed < min
    readsAfterCancel, \* src.Read calls begun after tracker.Cancel
    samples,          \* updateSpeed calls in the session
    summaries,        \* summary lines printed by the current call
    streakResets,     \* MonitorSpeed ticks that set a running streak back to 0
    \* a client of the tracker API (NewProgressTracker, GetCountingWriter)
    sinkSum,          \* sum of the n the underlying sink returned
    writeCalls,       \* CountingWriter.Write calls made
    lastWrite,        \* the last Write: what went in, what the sink saw and
                      \* answered, what the caller got back
    \* the context main creates and hands to processGroup
    ctxDone,          \* that context is done (deadline or cancel)
    readsAfterCtxDone, \* src.Read calls begun after that
    \* the orchestrator: ProcessDownItems and processGroup
    orch,             \* which of the two runs
    retries,          \* argument retries
    urls,             \* urls[i]: number of download-urls of item i
    opc,              \* position of the orchestrator
    item,             \* index of the item loop
    url,              \* index of the URL loop
    attempt,          \* counter of the retry loop
    success,          \* local flag of the item
    resourceNotFound, \* local flag of the item
    successCount,     \* the result being counted
    lastResult,       \* result of the last DownloadFile call on the current URL
    dlCalls,          \* DownloadFile calls made by the orchestrator
    forceUpdate,      \* argument forceUpdate
    decision,         \* what the needsUpdate test of the current item saw
    okItems,          \* items skipped as up to date or downloaded
    \* history of DownloadFile, read by the properties only
    stepFailed,       \* a step of the current call has failed
    \* updateSpeed and displayKnownSizeProgress called on their own
    lastElapsed,      \* milliseconds the last updateSpeed call saw as elapsed
    seeded,           \* an updateSpeed call has seen a positive elapsed time
    fileSize,         \* tracker.FileSize
    speedDen,         \* Speed counts 1/speedDen bytes per second
    shown,            \* the progress line rendered last
    \* the orchestrator's backoff and the group loop of main
    waitTime,         \* seconds of the last backoff wait
    group,            \* the configuration group main is at
    \* the copy loop with any reader and writer
    written,          \* the loop's result written
    accepted,         \* bytes dst has accepted
    loop,             \* position of the loop, its last Read and Write, its counts
    \* the download-time cache
    cacheFile,        \* what the cache file holds
    entries,          \* path -> hour of the last download, in a valid file
    onDisk,           \* FileExists of each path
    now,              \* the clock, in hours
    lastOp,           \* the cache operation made last and its result
    cacheOps,         \* cache operations made
    \* the download directory
    dirExists,        \* os.Stat(downloadDir) finds it
    tree,             \* what is under the directory
    cleanup           \* the call of CleanupIncompleteDownloads and its result

callVars == <<variant, keepOldFile, callNo, pc, ret, downloadSuccess, bodyLeft, err>>
fsVars == <<dest, old, temps>>
trackerVars == <<BytesCount, LastSize, Speed, LowSpeedCount, Done, CtxDone, CancelReason>>
goVars == <<monitor, progress>>
histVars == <<destBefore, oldBefore, prevRet, cancelCalls, lowTicks, readsAfterCancel, samples, summaries, streakResets>>
apiVars == <<sinkSum, writeCalls, lastWrite>>
ctxVars == <<ctxDone, readsAfterCtxDone>>
orchVars == <<orch, retries, urls, opc, item, url, attempt, success, resourceNotFound, successCount, lastResult, dlCalls, forceUpdate, decision, okItems, waitTime, group>>
sampVars == <<lastElapsed, seeded>>
etaVars == <<fileSize, speedDen, shown>>
copyVars == <<written, accepted, loop>>
cacheVars == <<cacheFile, entries, onDisk, now, lastOp, cacheOps>>
dirVars == <<dirExists, tree, cleanup>>
vars == <<callVars, fsVars, trackerVars, goVars, histVars, apiVars, ctxVars, orchVars, stepFailed, sampVars, etaVars, copyVars, cacheVars, dirVars>>

Variants == {"downfile", "downutils"}

\* no Write has been made through the CountingWriter
NoWrite == [given |-> <<>>, forwarded |-> <<>>, sinkCalls |-> 0,
            sinkN |-> 0, sinkErr |-> "nil", n |-> 0, err |-> "nil"]

\* DownloadFile is the only user of its tracker
NoClient ==
    /\ sinkSum = 0
    /\ writeCalls = 0
    /\ lastWrite = NoWrite

\* DownloadFile is called without an enclosing context
NoContext ==
    /\ ctxDone = FALSE
    /\ readsAfterCtxDone = 0

\* no pass of a copy loop on its own has been made
NoIter == [at |-> "off", nr |-> 0, er |-> "nil", nw |-> 0, ew |-> "nil",
           wrote |-> FALSE, err |-> "nil", reads |-> 0, allFull |-> TRUE,
           ended |-> FALSE, readsAfter |-> 0, writesAfter |-> 0]

\* the copy loop is run by DownloadFile only
NoCopy ==
    /\ written = 0
    /\ accepted = 0
    /\ loop = NoIter

\* a cache without entries: make(map[string]time.Time); -1 stands for a
\* path that has no entry, any other value is the hour of its timestamp
EmptyFiles == [p \in 1..MaxPaths |-> -1]

\* no cache operation has been made
NoOp == [op |-> "none", path |-> 0, hours |-> 0, result |-> "none", at |-> 0,
         before |-> EmptyFiles, fileBefore |-> "missing", onDiskBefore |-> {},
         nilMap |-> FALSE, changed |-> FALSE, save |-> "none"]

\* the cache is left out: no cache file, no file, the clock at 0
NoCache ==
    /\ cacheFile = "missing"
    /\ entries = EmptyFiles
    /\ onDisk = [p \in 1..MaxPaths |-> FALSE]
    /\ now = 0
    /\ lastOp = NoOp
    /\ cacheOps = 0

\* a download directory without entries
EmptyTree == [i \in 1..MaxSlots |-> "absent"]

\* CleanupIncompleteDownloads has not been called
NoCleanup == [called |-> FALSE, ret |-> "none", walked |-> FALSE,
              attempted |-> {}, failed |-> {}, before |-> EmptyTree]

\* the download directory is left out
NoDir ==
    /\ dirExists = FALSE
    /\ tree = EmptyTree
    /\ cleanup = NoCleanup

\* the needsUpdate test has not been made
NoDecision == [exists |-> FALSE, keepUpdated |-> FALSE, due |-> FALSE, skipped |-> FALSE]

\* no progress line has been rendered
NoLine == [kind |-> "none", seconds |-> 0]

\* DownloadFile is called directly, not by an orchestrator
NoOrchestrator ==
    /\ orch = "none"
    /\ retries = 0
    /\ urls = [i \in 1..MaxItems |-> 0]
    /\ opc = "off"
    /\ item = 0
    /\ url = 0
    /\ attempt = 0
    /\ success = FALSE
    /\ resourceNotFound = FALSE
    /\ successCount = 0
    /\ lastResult = "none"
    /\ dlCalls = 0
    /\ forceUpdate = FALSE
    /\ decision = NoDecision
    /\ okItems = {}
    /\ waitTime = 0
    /\ group = 0

\* updateSpeed and displayKnownSizeProgress are only called by
\* DisplayProgress; Speed is counted in whole bytes per second
NoHarness ==
    /\ lastElapsed = 0
    /\ seeded = FALSE
    /\ fileSize = 0
    /\ speedDen = 1
    /\ shown = NoLine

\* no call of DownloadFile has been made, and so no tracker exists
NoCall ==
    /\ keepOldFile = FALSE
    /\ callNo = 0
    /\ pc = "idle"
    /\ ret = "none"
    /\ temps = [n \in 1..MaxCalls |-> Absent]
    /\ downloadSuccess = FALSE
    /\ bodyLeft = 0
    /\ err = "nil"
    /\ BytesCount = 0
    /\ LastSize = 0
    /\ Speed = 0
    /\ LowSpeedCount = 0
    /\ Done = FALSE
    /\ CtxDone = FALSE
    /\ CancelReason = ""
    /\ monitor = "none"
    /\ progress = "none"
    /\ destBefore = dest
    /\ oldBefore = old
    /\ prevRet = "none"
    /\ cancelCalls = 0
    /\ lowTicks = 0
    /\ readsAfterCancel = 0
    /\ samples = 0
    /\ summaries = 0
    /\ streakResets = 0
    /\ stepFailed = FALSE

Init ==
    /\ variant \in Variants
    /\ dest \in {Absent, PreFile}
    /\ old \in {Absent, PreOld}
    /\ NoCall
    /\ NoClient
    /\ NoContext
    /\ NoCopy
    /\ NoCache
    /\ NoDir
    /\ NoOrchestrator
    /\ NoHarness

\* ------------------------------------------------------------------------
\* DownloadFile, step by step

\* a return before the deferred cleanup is installed: nothing is undone
EarlyReturn(r) ==
    /\ pc' = "idle"
    /\ ret' = r
    /\ stepFailed' = TRUE

\* mutant of TempAfterDefer: the cleanup forgets the temp file
TempAfterDefer_Kept(t, downloaded, n) == t

\* the deferred func of DownloadFile: out.Close(), then os.Remove(tempFile)
\* unless downloadSuccess.  The error of os.Remove is dropped by the code;
\* the removal of a file this call created and closed is taken to succeed.
TempAfterDefer(t, downloaded, n) ==
    IF downloaded THEN t ELSE [t EXCEPT ![n] = Absent]

\* mutant of DeferredReturn: the tracker is not closed on a failure return
DeferredReturn_LeavesDone(r) ==
    /\ pc' = "idle"
    /\ ret' = r
    /\ Done' = Done
    /\ temps' = TempAfterDefer(temps, downloadSuccess, callNo)
    /\ bodyLeft' = 0

\* a return after the tracker exists: defer tracker.Close() closes Done, the
\* deferred cleanup runs and defer resp.Body.Close() ends the body
DeferredReturn(r) ==
    /\ pc' = "idle"
    /\ ret' = r
    /\ Done' = TRUE
    /\ temps' = TempAfterDefer(temps, downloadSuccess, callNo)
    /\ bodyLeft' = 0

\* The zero state of a session.  NewProgressTracker builds it; the model
\* already installs it when a call starts, which drops the goroutines of the
\* finished session that are still running: they touch only the old tracker,
\* and nothing reads that one any more.
NoSession ==
    /\ BytesCount' = 0
    /\ LastSize' = 0
    /\ Speed' = 0
    /\ LowSpeedCount' = 0
    /\ Done' = FALSE
    /\ CtxDone' = FALSE
    /\ CancelReason' = ""
    /\ monitor' = "none"
    /\ progress' = "none"
    /\ cancelCalls' = 0
    /\ lowTicks' = 0
    /\ readsAfterCancel' = 0
    /\ samples' = 0
    /\ summaries' = 0
    /\ streakResets' = 0

\* os.MkdirAll
StartDownloadFile ==
    /\ pc = "idle"
    /\ callNo < MaxCalls
    /\ callNo' = callNo + 1
    /\ \E k \in BOOLEAN : keepOldFile' = k
    /\ downloadSuccess' = FALSE
    /\ err' = "nil"
    /\ prevRet' = ret
    /\ destBefore' = dest
    /\ oldBefore' = old
    /\ NoSession
    /\ \E ok \in BOOLEAN :
         IF ok THEN pc' = "create" /\ ret' = "running" /\ stepFailed' = FALSE
               ELSE EarlyReturn(GenericError)
    /\ UNCHANGED <<variant, bodyLeft, fsVars>>
    /\ UNCHANGED <<apiVars, ctxVars, orchVars, sampVars, etaVars,
                   copyVars, cacheVars, dirVars>>

\* os.Create(tempFile)
CreateTemp ==
    /\ pc = "create"
    /\ \E ok \in BOOLEAN :
         IF ok THEN /\ temps' = [temps EXCEPT ![callNo] = EmptyFile(callNo, 0)]
                    /\ pc' = "request"
                    /\ ret' = ret
                    /\ stepFailed' = stepFailed
               ELSE /\ EarlyReturn(GenericError)
                    /\ temps' = temps
    /\ UNCHANGED <<variant, keepOldFile, callNo, downloadSuccess, bodyLeft, err,
                   dest, old, trackerVars, goVars, histVars>>
    /\ UNCHANGED <<apiVars, ctxVars, orchVars, sampVars, etaVars,
                   copyVars, cacheVars, dirVars>>

\* the error DownloadFile returns for a response status other than 200
StatusError(status) ==
    IF status = StatusNotFound THEN ErrResourceNotFound ELSE GenericError

\* first position of the copy loop
CopyLoopHead == IF variant = "downutils" THEN "copy_select" ELSE "copy_read"

\* http.NewRequest, client.Do, the status check, NewProgressTracker and the
\* two go statements
SendRequest ==
    /\ pc = "request"
    /\ \/ /\ EarlyReturn(GenericError)
          /\ UNCHANGED <<bodyLeft, temps, goVars>>
       \/ /\ \E status \in {StatusNotFound, 500} :
               EarlyReturn(StatusError(status))
          /\ UNCHANGED <<bodyLeft, temps, goVars>>
       \/ /\ \E len \in 0..MaxBody :
               /\ bodyLeft' = len * DownloadBufferSize
               /\ temps' = [temps EXCEPT ![callNo] =
                              EmptyFile(callNo, len * DownloadBufferSize)]
          /\ pc' = CopyLoopHead
          /\ ret' = ret
          /\ stepFailed' = stepFailed
          \* go tracker.MonitorSpeed(); go tracker.DisplayProgress()
          /\ monitor' = "running"
          /\ progress' = "running"
    /\ UNCHANGED <<variant, keepOldFile, callNo, downloadSuccess, err, dest, old,
                   trackerVars, histVars>>
    /\ UNCHANGED <<apiVars, ctxVars, orchVars, sampVars, etaVars,
                   copyVars, cacheVars, dirVars>>

\* ------------------------------------------------------------------------
\* The copy loop: copyBuffer (downfile) and copyBufferWithContext (downutils)

\* results a Read of the response body can give when `left` bytes remain:
\* a full buffer or nothing, with no error, end of stream or a failure; end
\* of stream only once nothing remains.  A response body never answers
\* (0, nil), which io.Reader discourages.
ReadResults(left) ==
    { r \in [nr : {0, DownloadBufferSize}, er : {"nil", "EOF", "read_error"}] :
        /\ r.nr <= left
        /\ (r.er = "EOF" => r.nr = left)
        /\ (r.er = "nil" => r.nr > 0) }

\* results the sink can give for a Write of nr bytes.  The sink is the
\* CountingWriter over an *os.File, and (*os.File).Write returns a non-nil
\* error exactly when it wrote fewer bytes than it was given.
WriteResults(nr) ==
    { w \in [nw : {0, nr \div 2, nr}, ew : {"nil", "write_error"}] :
        (w.ew = "nil") = (w.nw = nr) }

\* mutant of IterResult: a short write without an error is not noticed
IterResult_ShortWriteGoesOn(nr, er, nw, ew) ==
    IF nr > 0 /\ ew # "nil" THEN ew
    ELSE IF er = "nil" THEN "continue"
    ELSE IF er = "EOF" THEN "nil"
    ELSE er

\* one pass of the loop body after the Read: "continue", or the value of
\* err the loop returns with ("nil" at end of stream)
IterResult(nr, er, nw, ew) ==
    IF nr > 0 /\ ew # "nil" THEN ew
    ELSE IF nr > 0 /\ nr # nw THEN "short_write"
    ELSE IF er = "nil" THEN "continue"
    ELSE IF er = "EOF" THEN "nil"
    ELSE er

\* mutant of CountAfterWrite: the counter is stored, not added to
CountAfterWrite_Stores(count, n) == IF n > 0 THEN n ELSE count

\* mutant of CountAfterWrite: the accepted bytes are taken off the counter
CountAfterWrite_Subtracts(count, n) == IF n > 0 THEN count - n ELSE count

\* CountingWriter.Write: the counter grows by what the sink accepted
CountAfterWrite(count, n) == IF n > 0 THEN count + n ELSE count

\* select on ctx.Done() at the head of copyBufferWithContext
CopySelect ==
    /\ pc = "copy_select"
    /\ IF CtxDone
         THEN err' = "canceled" /\ pc' = "reason"
         ELSE err' = err /\ pc' = "copy_read"
    /\ stepFailed' = stepFailed
    /\ UNCHANGED <<variant, keepOldFile, callNo, ret, downloadSuccess, bodyLeft,
                   fsVars, trackerVars, goVars, histVars>>
    /\ UNCHANGED <<apiVars, ctxVars, orchVars, sampVars, etaVars,
                   copyVars, cacheVars, dirVars>>

\* src.Read and, when it gave bytes, dst.Write through the CountingWriter
CopyRead ==
    /\ pc = "copy_read"
    /\ \E r \in ReadResults(bodyLeft) :
       \E w \in WriteResults(r.nr) :
         LET nw == IF r.nr > 0 THEN w.nw ELSE 0
             res == IterResult(r.nr, r.er, w.nw, w.ew)
         IN  /\ (r.nr = 0 => w = [nw |-> 0, ew |-> "nil"])
             /\ bodyLeft' = bodyLeft - r.nr
             /\ temps' = [temps EXCEPT ![callNo].written = @ + nw]
             /\ BytesCount' = CountAfterWrite(BytesCount, nw)
             /\ IF res = "continue"
                  THEN err' = err /\ pc' = CopyLoopHead
                  ELSE err' = res /\ pc' = "reason"
             /\ stepFailed' = (stepFailed \/ res \notin {"continue", "nil"})
    /\ readsAfterCancel' = IF cancelCalls > 0 THEN readsAfterCancel + 1
                                              ELSE readsAfterCancel
    /\ UNCHANGED <<variant, keepOldFile, callNo, ret, downloadSuccess, dest, old,
                   LastSize, Speed, LowSpeedCount, Done, CtxDone, CancelReason,
                   goVars, destBefore, oldBefore, prevRet, cancelCalls, lowTicks,
                   samples, summaries, streakResets>>
    /\ readsAfterCtxDone' = IF ctxDone THEN readsAfterCtxDone + 1
                                       ELSE readsAfterCtxDone
    /\ UNCHANGED <<apiVars, ctxDone, orchVars, sampVars, etaVars,
                   copyVars, cacheVars, dirVars>>

\* ------------------------------------------------------------------------
\* DownloadFile after the copy loop

\* mutant of AfterCopyError: the error of the copy loop is not looked at
AfterCopyError_IgnoresErr(reason, e) ==
    IF reason = ErrLowSpeed THEN ErrLowSpeed ELSE ""

\* the err DownloadFile returns after the copy, "" when it goes on
AfterCopyError(reason, e) ==
    IF reason = ErrLowSpeed THEN ErrLowSpeed
    ELSE IF e # "nil" THEN GenericError
    ELSE ""

\* tracker.GetCancelReason() and the two error checks
CheckCancelReason ==
    /\ pc = "reason"
    /\ IF AfterCopyError(CancelReason, err) # ""
         THEN /\ DeferredReturn(AfterCopyError(CancelReason, err))
              /\ stepFailed' = stepFailed
         ELSE /\ pc' = "summary"
              /\ ret' = ret /\ Done' = Done /\ temps' = temps /\ bodyLeft' = bodyLeft
              /\ stepFailed' = stepFailed
    /\ UNCHANGED <<variant, keepOldFile, callNo, downloadSuccess, err,
                   dest, old, BytesCount, LastSize, Speed, LowSpeedCount, CtxDone,
                   CancelReason, goVars, histVars>>
    /\ UNCHANGED <<apiVars, ctxVars, orchVars, sampVars, etaVars,
                   copyVars, cacheVars, dirVars>>

\* mutant of SummaryPrinted: the summary is printed whatever the reason
SummaryPrinted_Always(reason) == TRUE

\* tracker.DisplaySummary(): prints unless a cancel reason is stored
SummaryPrinted(reason) == reason = ""

\* mutant of OldFileStep: the old file is deleted whatever keepOldFile says
OldFileStep_NeverKeeps(d, o, keep) ==
    IF FileExists(d) THEN "rm_old" ELSE "rename"

\* where DownloadFile goes once the temp file is closed: the FileExists
\* tests of storePath and storePath + ".old"
OldFileStep(d, o, keep) ==
    IF FileExists(d)
      THEN IF keep THEN IF FileExists(o) THEN "rm_backup" ELSE "backup"
                   ELSE "rm_old"
      ELSE "rename"

\* tracker.DisplaySummary(), out.Close(), downloadSuccess = true
DisplaySummary ==
    /\ pc = "summary"
    /\ summaries' = IF SummaryPrinted(CancelReason) THEN summaries + 1 ELSE summaries
    /\ \E ok \in BOOLEAN :
         IF ok THEN /\ downloadSuccess' = TRUE
                    /\ pc' = OldFileStep(dest, old, keepOldFile)
                    /\ ret' = ret /\ Done' = Done /\ temps' = temps /\ bodyLeft' = bodyLeft
                    /\ stepFailed' = stepFailed
               ELSE /\ DeferredReturn(GenericError)
                    /\ stepFailed' = TRUE
                    /\ downloadSuccess' = downloadSuccess
    /\ UNCHANGED <<variant, keepOldFile, callNo, err, dest, old,
                   BytesCount, LastSize, Speed, LowSpeedCount, CtxDone,
                   CancelReason, goVars, destBefore, oldBefore, prevRet,
                   cancelCalls, lowTicks, readsAfterCancel, samples, streakResets>>
    /\ UNCHANGED <<apiVars, ctxVars, orchVars, sampVars, etaVars,
                   copyVars, cacheVars, dirVars>>

\* os.Remove(oldFilePath)
RemoveOldBackup ==
    /\ pc = "rm_backup"
    /\ \E ok \in BOOLEAN :
         IF ok THEN /\ old' = Absent
                    /\ pc' = "backup"
                    /\ ret' = ret /\ Done' = Done /\ temps' = temps /\ bodyLeft' = bodyLeft
                    /\ stepFailed' = stepFailed
               ELSE /\ DeferredReturn(GenericError)
                    /\ stepFailed' = TRUE
                    /\ old' = old
    /\ UNCHANGED <<variant, keepOldFile, callNo, downloadSuccess, err,
                   dest, BytesCount, LastSize, Speed, LowSpeedCount, CtxDone,
                   CancelReason, goVars, histVars>>
    /\ UNCHANGED <<apiVars, ctxVars, orchVars, sampVars, etaVars,
                   copyVars, cacheVars, dirVars>>

\* os.Rename(storePath, oldFilePath)
BackupOldFile ==
    /\ pc = "backup"
    /\ \E ok \in BOOLEAN :
         IF ok THEN /\ old' = dest
                    /\ dest' = Absent
                    /\ pc' = "rename"
                    /\ ret' = ret /\ Done' = Done /\ temps' = temps /\ bodyLeft' = bodyLeft
                    /\ stepFailed' = stepFailed
               ELSE /\ DeferredReturn(GenericError)
                    /\ stepFailed' = TRUE
                    /\ old' = old /\ dest' = dest
    /\ UNCHANGED <<variant, keepOldFile, callNo, downloadSuccess, err,
                   BytesCount, LastSize, Speed, LowSpeedCount, CtxDone,
                   CancelReason, goVars, histVars>>
    /\ UNCHANGED <<apiVars, ctxVars, orchVars, sampVars, etaVars,
                   copyVars, cacheVars, dirVars>>

\* os.Remove(storePath)
RemoveOldFile ==
    /\ pc = "rm_old"
    /\ \E ok \in BOOLEAN :
         IF ok THEN /\ dest' = Absent
                    /\ pc' = "rename"
                    /\ ret' = ret /\ Done' = Done /\ temps' = temps /\ bodyLeft' = bodyLeft
                    /\ stepFailed' = stepFailed
               ELSE /\ DeferredReturn(GenericError)
                    /\ stepFailed' = TRUE
                    /\ dest' = dest
    /\ UNCHANGED <<variant, keepOldFile, callNo, downloadSuccess, err,
                   old, BytesCount, LastSize, Speed, LowSpeedCount, CtxDone,
                   CancelReason, goVars, histVars>>
    /\ UNCHANGED <<apiVars, ctxVars, orchVars, sampVars, etaVars,
                   copyVars, cacheVars, dirVars>>

\* os.Rename(tempFile, storePath); after it UpdateFileDownloadTime, whose
\* error is printed and not returned, and return nil
RenameTemp ==
    /\ pc = "rename"
    /\ \E ok \in BOOLEAN :
         IF ok THEN /\ dest' = temps[callNo]
                    /\ pc' = "idle"
                    /\ ret' = "nil"
                    /\ Done' = TRUE
                    /\ bodyLeft' = 0
                    /\ temps' = TempAfterDefer([temps EXCEPT ![callNo] = Absent],
                                               downloadSuccess, callNo)
                    \* UpdateFileDownloadTime: its error is printed
                    /\ \E cached \in BOOLEAN :
                         stepFailed' = (stepFailed \/ ~cached)
               ELSE /\ DeferredReturn(GenericError)
                    /\ stepFailed' = TRUE
                    /\ dest' = dest
    /\ UNCHANGED <<variant, keepOldFile, callNo, downloadSuccess, err,
                   old, BytesCount, LastSize, Speed, LowSpeedCount, CtxDone,
                   CancelReason, goVars, histVars>>
    /\ UNCHANGED <<apiVars, ctxVars, orchVars, sampVars, etaVars,
                   copyVars, cacheVars, dirVars>>

\* ------------------------------------------------------------------------
\* The watchdog goroutine: ProgressTracker.MonitorSpeed

\* the tick saw a speed under the floor
BelowRequired(speed) == speed < MinRequiredSpeed

\* mutant of StreakExpired: the streak must exceed the duration
StreakExpired_OneTickLate(count) == count * SpeedCheckInterval > LowSpeedDuration

\* mutant of StreakExpired: the tick count is compared without the interval
StreakExpired_NoInterval(count) == count >= LowSpeedDuration

\* downutils: the streak has lasted long enough to cancel
StreakExpired(count) == count * SpeedCheckInterval >= LowSpeedDuration

\* mutant of CountAfterTick: a tick at or above the floor keeps the streak
CountAfterTick_NoReset(count, speed) ==
    IF BelowRequired(speed) THEN count + 1 ELSE count

\* LowSpeedCount after a tick of the downutils watchdog
CountAfterTick(count, speed) ==
    IF BelowRequired(speed) THEN count + 1 ELSE 0

\* does this tick cancel the download
TickCancels(v, count, speed) ==
    IF v = "downfile"
      THEN BelowRequired(speed)
      ELSE BelowRequired(speed) /\ StreakExpired(CountAfterTick(count, speed))

\* case <-speedCheckTicker.C
MonitorSpeedTick ==
    /\ monitor = "running"
    /\ LowSpeedCount' = IF variant = "downutils"
                          THEN CountAfterTick(LowSpeedCount, Speed)
                          ELSE LowSpeedCount
    /\ lowTicks' = IF BelowRequired(Speed) THEN lowTicks + 1 ELSE 0
    /\ streakResets' = IF ~BelowRequired(Speed) /\ lowTicks > 0
                         THEN streakResets + 1 ELSE streakResets
    /\ IF TickCancels(variant, LowSpeedCount, Speed)
         THEN /\ CancelReason' = ErrLowSpeed
              /\ CtxDone' = TRUE
              /\ cancelCalls' = cancelCalls + 1
              /\ monitor' = "returned"
         ELSE UNCHANGED <<CancelReason, CtxDone, cancelCalls, monitor>>
    /\ UNCHANGED <<callVars, fsVars, BytesCount, LastSize, Speed, Done, progress,
                   destBefore, oldBefore, prevRet, readsAfterCancel, samples,
                   summaries>>
    /\ UNCHANGED <<apiVars, ctxVars, orchVars, sampVars, etaVars,
                   copyVars, cacheVars, dirVars>>
    /\ UNCHANGED stepFailed

\* case <-pt.Done
MonitorSpeedDone ==
    /\ monitor = "running"
    /\ Done
    /\ monitor' = "returned"
    /\ UNCHANGED <<callVars, fsVars, trackerVars, progress, histVars>>
    /\ UNCHANGED <<apiVars, ctxVars, orchVars, sampVars, etaVars,
                   copyVars, cacheVars, dirVars>>
    /\ UNCHANGED stepFailed

\* ------------------------------------------------------------------------
\* The sampler goroutine: ProgressTracker.DisplayProgress

\* time since the last sample that a tick can observe, in milliseconds
ElapsedMs == {0, ProgressUpdateInterval}

\* mutant of InstantSpeed: the difference is taken the other way round
InstantSpeed_Reversed(currentSize, lastSize, elapsedMs) ==
    ((lastSize - currentSize) * 1000) \div elapsedMs

\* instantSpeed of updateSpeed, bytes per second
InstantSpeed(currentSize, lastSize, elapsedMs) ==
    ((currentSize - lastSize) * 1000) \div elapsedMs

\* the exponential moving average of updateSpeed
SmoothedSpeed(speed, instant) ==
    IF speed = 0 THEN instant ELSE (7 * speed + 3 * instant) \div 10

\* Speed after updateSpeed
SpeedAfterUpdate(speed, currentSize, lastSize, elapsedMs) ==
    IF elapsedMs > 0
      THEN SmoothedSpeed(speed, InstantSpeed(currentSize, lastSize, elapsedMs))
      ELSE speed

\* LastSize after updateSpeed
LastSizeAfterUpdate(currentSize, lastSize, elapsedMs) ==
    IF elapsedMs > 0 THEN currentSize ELSE lastSize

\* case <-ticker.C: updateSpeed and the rendering of the progress line
DisplayProgressTick ==
    /\ progress = "running"
    /\ samples < MaxSamples
    /\ samples' = samples + 1
    /\ \E e \in ElapsedMs :
         /\ Speed' = SpeedAfterUpdate(Speed, BytesCount, LastSize, e)
         /\ LastSize' = LastSizeAfterUpdate(BytesCount, LastSize, e)
    /\ UNCHANGED <<callVars, fsVars, BytesCount, LowSpeedCount, Done, CtxDone,
                   CancelReason, goVars, destBefore, oldBefore, prevRet,
                   cancelCalls, lowTicks, readsAfterCancel, summaries, streakResets>>
    /\ UNCHANGED <<apiVars, ctxVars, orchVars, sampVars, etaVars,
                   copyVars, cacheVars, dirVars>>
    /\ UNCHANGED stepFailed

\* mutant of SamplerStops: the sampler does not select on pt.Ctx.Done()
SamplerStops_IgnoresCancel(done, cancelled) == done

\* the two cases of the select of DisplayProgress that return
SamplerStops(done, cancelled) == done \/ cancelled

\* case <-pt.Done and case <-pt.Ctx.Done()
DisplayProgressDone ==
    /\ progress = "running"
    /\ SamplerStops(Done, CtxDone)
    /\ progress' = "returned"
    /\ UNCHANGED <<callVars, fsVars, trackerVars, monitor, histVars>>
    /\ UNCHANGED <<apiVars, ctxVars, orchVars, sampVars, etaVars,
                   copyVars, cacheVars, dirVars>>
    /\ UNCHANGED stepFailed

\* ------------------------------------------------------------------------
Next ==
    \/ StartDownloadFile
    \/ CreateTemp
    \/ SendRequest
    \/ CopySelect
    \/ CopyRead
    \/ CheckCancelReason
    \/ DisplaySummary
    \/ RemoveOldBackup
    \/ BackupOldFile
    \/ RemoveOldFile
    \/ RenameTemp
    \/ MonitorSpeedTick
    \/ MonitorSpeedDone
    \/ DisplayProgressTick
    \/ DisplayProgressDone

Spec == Init /\ [][Next]_vars

TypeOK ==
    /\ variant \in Variants
    /\ callNo \in 0..MaxCalls
    /\ Speed >= 0
    /\ LowSpeedCount >= 0

\* ------------------------------------------------------------------------
\* The tracker used through its exported API: a client builds a tracker with
\* NewProgressTracker, starts MonitorSpeed and DisplayProgress, writes through
\* GetCountingWriter over a sink of its own, and may call SetCancelReason
\* and Close.

\* the byte slices a client writes: up to MaxChunk times the same byte
Chunks == { [i \in 1..k |-> b] : k \in 0..MaxChunk, b \in {0, 1} }

\* results an io.Writer can give for a slice p: any count up to len(p), with
\* or without an error
SinkResults(p) == [n : 0..Len(p), err : {"nil", "write_error"}]

\* the slice CountingWriter.Write hands to the underlying sink
SinkInput(p) == p

\* mutant of WriteReturn: the caller is told the whole slice was written
WriteReturn_FullLength(p, sinkN, sinkErr) == [n |-> Len(p), err |-> sinkErr]

\* the (n, err) CountingWriter.Write returns
WriteReturn(p, sinkN, sinkErr) == [n |-> sinkN, err |-> sinkErr]

\* the state a client starts from: a new tracker, both goroutines started
InitTracker ==
    /\ variant \in Variants
    /\ keepOldFile = FALSE
    /\ callNo = 0
    /\ pc = "client"
    /\ ret = "none"
    /\ dest = Absent
    /\ old = Absent
    /\ temps = [n \in 1..MaxCalls |-> Absent]
    /\ downloadSuccess = FALSE
    /\ bodyLeft = 0
    /\ err = "nil"
    /\ BytesCount = 0
    /\ LastSize = 0
    /\ Speed = 0
    /\ LowSpeedCount = 0
    /\ Done = FALSE
    /\ CtxDone = FALSE
    /\ CancelReason = ""
    /\ monitor = "running"
    /\ progress = "running"
    /\ destBefore = dest
    /\ oldBefore = old
    /\ prevRet = "none"
    /\ cancelCalls = 0
    /\ lowTicks = 0
    /\ readsAfterCancel = 0
    /\ samples = 0
    /\ summaries = 0
    /\ streakResets = 0
    /\ stepFailed = FALSE
    /\ NoClient
    /\ NoContext
    /\ NoCopy
    /\ NoCache
    /\ NoDir
    /\ NoOrchestrator
    /\ NoHarness

\* CountingWriter.Write
Write ==
    /\ pc = "client"
    /\ writeCalls < MaxWrites
    /\ \E p \in Chunks :
       \E w \in SinkResults(SinkInput(p)) :
         /\ BytesCount' = CountAfterWrite(BytesCount, w.n)
         /\ sinkSum' = sinkSum + w.n
         /\ lastWrite' = [given |-> p, forwarded |-> SinkInput(p), sinkCalls |-> 1,
                          sinkN |-> w.n, sinkErr |-> w.err,
                          n |-> WriteReturn(p, w.n, w.err).n,
                          err |-> WriteReturn(p, w.n, w.err).err]
    /\ writeCalls' = writeCalls + 1
    /\ UNCHANGED <<callVars, fsVars, LastSize, Speed, LowSpeedCount, Done, CtxDone,
                   CancelReason, goVars, histVars, ctxVars, orchVars, sampVars, etaVars,
                   copyVars, cacheVars, dirVars>>
    /\ UNCHANGED stepFailed

\* the reasons a client stores
Reasons == {ErrLowSpeed, ErrResourceNotFound}

\* ProgressTracker.SetCancelReason
SetCancelReason ==
    /\ pc = "client"
    /\ \E reason \in Reasons : CancelReason' = reason
    /\ UNCHANGED <<callVars, fsVars, BytesCount, LastSize, Speed, LowSpeedCount,
                   Done, CtxDone, goVars, histVars, apiVars, ctxVars, orchVars, sampVars, etaVars,
                   copyVars, cacheVars, dirVars>>
    /\ UNCHANGED stepFailed

\* ProgressTracker.Close: close(pt.Done); a second close would panic
Close ==
    /\ pc = "client"
    /\ ~Done
    /\ Done' = TRUE
    /\ UNCHANGED <<callVars, fsVars, BytesCount, LastSize, Speed, LowSpeedCount,
                   CtxDone, CancelReason, goVars, histVars, apiVars, ctxVars,
                   orchVars, sampVars, etaVars,
                   copyVars, cacheVars, dirVars>>
    /\ UNCHANGED stepFailed

NextTracker ==
    \/ Write
    \/ SetCancelReason
    \/ Close
    \/ MonitorSpeedTick
    \/ MonitorSpeedDone
    \/ DisplayProgressTick
    \/ DisplayProgressDone

SpecTracker == InitTracker /\ [][NextTracker]_vars

\* ------------------------------------------------------------------------
\* DownloadFile called by processGroup of src/main.go, under the context
\* that main creates.  processGroup builds a request with that context and
\* then calls downfile.DownloadFile, which takes no context and builds a
\* request of its own.

\* the deadline of context.WithTimeout passes, or cancel is called
CtxExpires ==
    /\ orch # "ProcessDownItems"
    /\ ~ctxDone
    /\ ctxDone' = TRUE
    /\ UNCHANGED <<callVars, fsVars, trackerVars, goVars, histVars, apiVars,
                   readsAfterCtxDone, orchVars, sampVars, etaVars,
                   copyVars, cacheVars, dirVars>>
    /\ UNCHANGED stepFailed

\* the ctx.Err() test at the head of the retry loop, then the call
CallUnderContext ==
    /\ ~ctxDone
    /\ StartDownloadFile

InitMain ==
    /\ variant = "downfile"
    /\ dest \in {Absent, PreFile}
    /\ old \in {Absent, PreOld}
    /\ NoCall
    /\ NoClient
    /\ NoContext
    /\ NoCopy
    /\ NoCache
    /\ NoDir
    /\ NoOrchestrator
    /\ NoHarness

NextMain ==
    \/ CallUnderContext
    \/ CreateTemp
    \/ SendRequest
    \/ CopyRead
    \/ CheckCancelReason
    \/ DisplaySummary
    \/ RemoveOldBackup
    \/ BackupOldFile
    \/ RemoveOldFile
    \/ RenameTemp
    \/ MonitorSpeedTick
    \/ MonitorSpeedDone
    \/ DisplayProgressTick
    \/ DisplayProgressDone
    \/ CtxExpires

SpecMain == InitMain /\ [][NextMain]_vars

\* ------------------------------------------------------------------------
\* The orchestrator: ProcessDownItems (src/downfile/downutils.go; processGroup
\* of src/unnamed/part_002 is the same loop) and processGroup of src/main.go,
\* which adds the context tests.  A call of DownloadFile is one step here,
\* with any of its results.

Orchestrators == {"ProcessDownItems", "processGroup"}

\* what a call of DownloadFile can return
DownloadResults == {"nil", GenericError, ErrResourceNotFound, ErrLowSpeed}

\* errors.Is(err, context.DeadlineExceeded) || errors.Is(err, context.Canceled)
IsContextError(r) == r \in {"deadline_exceeded", "canceled"}

\* mutant of AfterFailure: a low-speed cancellation is not retried
AfterFailure_LowSpeedIsFinal(kind, r, a, n) ==
    IF r = ErrResourceNotFound THEN "not_found"
    ELSE IF kind = "processGroup" /\ IsContextError(r) THEN "return"
    ELSE IF a < n /\ r # ErrLowSpeed THEN "wait"
    ELSE "break"

\* mutant of AfterFailure: the URL is given up after its first failure
AfterFailure_GivesUpEarly(kind, r, a, n) ==
    IF r = ErrResourceNotFound THEN "not_found"
    ELSE IF kind = "processGroup" /\ IsContextError(r) THEN "return"
    ELSE "break"

\* mutant of AfterFailure: a 404 is treated like any other error
AfterFailure_Retries404(kind, r, a, n) ==
    IF kind = "processGroup" /\ IsContextError(r) THEN "return"
    ELSE IF a < n THEN "wait"
    ELSE "break"

\* what the retry loop does with the error r of attempt a of n: note the
\* 404 and break, return, wait and try again, or break
AfterFailure(kind, r, a, n) ==
    IF r = ErrResourceNotFound THEN "not_found"
    ELSE IF kind = "processGroup" /\ IsContextError(r) THEN "return"
    ELSE IF a < n THEN "wait"
    ELSE "break"

\* mutant of TriesNextUrl: a success does not end the URL loop
TriesNextUrl_AfterSuccess(ok, notFound, u, n) ==
    ~notFound /\ u < n

\* mutant of TriesNextUrl: only a success ends the URL loop
TriesNextUrl_After404(ok, notFound, u, n) ==
    ~ok /\ u < n

\* after the retry loop of URL u of n: go on to URL u + 1
TriesNextUrl(ok, notFound, u, n) ==
    ~(ok \/ notFound) /\ u < n

InitOrch ==
    /\ variant = "downfile"
    /\ dest = Absent
    /\ old = Absent
    /\ NoCall
    /\ NoClient
    /\ NoContext
    /\ NoCopy
    /\ NoCache
    /\ NoDir
    /\ orch \in Orchestrators
    /\ retries \in 0..MaxRetries
    /\ urls \in [1..MaxItems -> 1..MaxUrls]
    /\ opc = "item"
    /\ item = 1
    /\ url = 0
    /\ attempt = 0
    /\ success = FALSE
    /\ resourceNotFound = FALSE
    /\ successCount = 0
    /\ lastResult = "none"
    /\ dlCalls = 0
    /\ forceUpdate \in BOOLEAN
    /\ decision = NoDecision
    /\ okItems = {}
    /\ waitTime = 0
    /\ group = 0
    /\ NoHarness

\* mutant of Cancelled: the context is never looked at
Cancelled_Never == FALSE

\* the ctx.Err() tests of processGroup; ProcessDownItems has no context
Cancelled == orch = "processGroup" /\ ctxDone

\* return successCount
Return ==
    /\ opc' = "done"
    /\ item' = item

\* the end of the body of the item loop
ToNextItem ==
    /\ item' = item + 1
    /\ opc' = IF item + 1 > MaxItems THEN "done" ELSE "item"

\* mutant of NeedsDownload: forceUpdate is not looked at
NeedsDownload_IgnoresForce(force, exists, keep, due) == ~exists \/ (keep /\ due)

\* needsUpdate := forceUpdate || !fileExists || (item.KeepUpdated && NeedsUpdate(..))
NeedsDownload(force, exists, keep, due) == force \/ ~exists \/ (keep /\ due)

\* if fileExists && !needsUpdate { successCount++; continue }
SkipsItem(force, exists, keep, due) == exists /\ ~NeedsDownload(force, exists, keep, due)

\* the cache is only asked when the || and && before it leave the answer open
CacheAnswers(force, exists, keep) ==
    IF ~force /\ exists /\ keep THEN BOOLEAN ELSE {FALSE}

\* head of the item loop: the needsUpdate test and, in ProcessDownItems,
\* MakeDirs
ItemStep ==
    /\ opc = "item"
    /\ IF Cancelled
         THEN /\ Return
              /\ UNCHANGED <<successCount, success, resourceNotFound, url,
                             decision, okItems>>
         ELSE \E exists \in BOOLEAN, keep \in BOOLEAN :
              \E due \in CacheAnswers(forceUpdate, exists, keep) :
                /\ decision' = [exists |-> exists, keepUpdated |-> keep, due |-> due,
                                skipped |-> SkipsItem(forceUpdate, exists, keep, due)]
                /\ IF SkipsItem(forceUpdate, exists, keep, due)
                     THEN /\ successCount' = successCount + 1
                          /\ okItems' = okItems \cup {item}
                          /\ ToNextItem
                          /\ UNCHANGED <<success, resourceNotFound, url>>
                     ELSE \/ \* MakeDirs failed
                             /\ orch = "ProcessDownItems"
                             /\ ToNextItem
                             /\ UNCHANGED <<successCount, okItems, success,
                                            resourceNotFound, url>>
                          \/ /\ success' = FALSE
                             /\ resourceNotFound' = FALSE
                             /\ url' = 1
                             /\ opc' = "url"
                             /\ UNCHANGED <<successCount, okItems, item>>
    /\ UNCHANGED <<callVars, fsVars, trackerVars, goVars, histVars, apiVars,
                   ctxVars, sampVars, etaVars, copyVars, cacheVars, dirVars,
                   forceUpdate, group,
                   orch, retries, urls, attempt, lastResult, dlCalls>>
    /\ UNCHANGED stepFailed
    /\ UNCHANGED waitTime

\* what follows the retry loop of the current URL, given the two flags
AfterRetryLoop(ok, notFound) ==
    IF TriesNextUrl(ok, notFound, url, urls[item])
      THEN url' = url + 1 /\ opc' = "url" /\ item' = item
      ELSE url' = url /\ ToNextItem

\* head of the URL loop; for attempt := 1; attempt <= retries has no pass
\* when retries < 1
UrlStep ==
    /\ opc = "url"
    /\ IF Cancelled
         THEN Return /\ UNCHANGED <<attempt, lastResult, url>>
         ELSE /\ attempt' = 1
              /\ lastResult' = "none"
              /\ IF 1 <= retries
                   THEN opc' = "attempt" /\ item' = item /\ url' = url
                   ELSE AfterRetryLoop(success, resourceNotFound)
    /\ UNCHANGED <<callVars, fsVars, trackerVars, goVars, histVars, apiVars,
                   ctxVars, sampVars, etaVars, copyVars, cacheVars, dirVars,
                   forceUpdate, group, decision, okItems,
                   orch, retries, urls, success, resourceNotFound,
                   successCount, dlCalls>>
    /\ UNCHANGED stepFailed
    /\ UNCHANGED waitTime

\* waitTime := time.Duration(attempt) * 2 * time.Second, in seconds
BackoffSeconds(a) == 2 * a

\* one pass of the retry loop: the call of DownloadFile and what is done
\* with its result
AttemptStep ==
    /\ opc = "attempt"
    /\ IF Cancelled
         THEN /\ Return
              /\ UNCHANGED <<url, success, resourceNotFound, successCount,
                             okItems, lastResult, dlCalls>>
         ELSE \/ \* http.NewRequestWithContext failed: break
                 /\ orch = "processGroup"
                 /\ AfterRetryLoop(success, resourceNotFound)
                 /\ UNCHANGED <<success, resourceNotFound, successCount,
                                okItems, lastResult, dlCalls>>
              \/ \E r \in DownloadResults :
                   /\ dlCalls' = dlCalls + 1
                   /\ lastResult' = r
                   /\ IF r = "nil"
                        THEN /\ successCount' = successCount + 1
                             /\ okItems' = okItems \cup {item}
                             /\ success' = TRUE
                             /\ resourceNotFound' = resourceNotFound
                             /\ AfterRetryLoop(TRUE, resourceNotFound)
                        ELSE LET todo == AfterFailure(orch, r, attempt, retries)
                        IN IF todo = "not_found"
                        THEN /\ resourceNotFound' = TRUE
                             /\ AfterRetryLoop(success, TRUE)
                             /\ UNCHANGED <<success, successCount, okItems>>
                        ELSE IF todo = "return"
                        THEN /\ Return
                             /\ UNCHANGED <<url, success, resourceNotFound,
                                            successCount, okItems>>
                        ELSE IF todo = "wait"
                        THEN /\ opc' = "wait"
                             /\ UNCHANGED <<item, url, success, resourceNotFound,
                                            successCount, okItems>>
                        ELSE /\ AfterRetryLoop(success, resourceNotFound)
                             /\ UNCHANGED <<success, resourceNotFound, successCount,
                                            okItems>>
    /\ UNCHANGED <<callVars, fsVars, trackerVars, goVars, histVars, apiVars,
                   ctxVars, sampVars, etaVars, copyVars, cacheVars, dirVars,
                   forceUpdate, group, decision,
                   orch, retries, urls, attempt>>
    /\ UNCHANGED stepFailed
    /\ waitTime' = IF opc' = "wait" THEN BackoffSeconds(attempt) ELSE waitTime

\* the backoff: time.Sleep, or in processGroup a select with ctx.Done()
WaitStep ==
    /\ opc = "wait"
    /\ \/ /\ attempt' = attempt + 1
          /\ opc' = "attempt"
       \/ /\ Cancelled
          /\ opc' = "done"
          /\ attempt' = attempt
    /\ UNCHANGED <<callVars, fsVars, trackerVars, goVars, histVars, apiVars,
                   ctxVars, sampVars, etaVars, copyVars, cacheVars, dirVars,
                   forceUpdate, group, decision, okItems,
                   orch, retries, urls, item, url, success,
                   resourceNotFound, successCount, lastResult, dlCalls>>
    /\ UNCHANGED stepFailed
    /\ UNCHANGED waitTime

NextOrch ==
    \/ ItemStep
    \/ UrlStep
    \/ AttemptStep
    \/ WaitStep
    \/ CtxExpires

SpecOrch == InitOrch /\ [][NextOrch]_vars

\* ------------------------------------------------------------------------
\* The group loop of main (src/main.go): one call of processGroup for each
\* configuration group, all under the context of main

\* main before the first group; every group has MaxItems items of MaxUrls
\* download-urls each
InitGroups ==
    /\ variant = "downfile"
    /\ dest = Absent
    /\ old = Absent
    /\ NoCall
    /\ NoClient
    /\ NoContext
    /\ NoCopy
    /\ NoCache
    /\ NoDir
    /\ orch = "processGroup"
    /\ retries \in 0..MaxRetries
    /\ urls = [i \in 1..MaxItems |-> MaxUrls]
    /\ opc = "group"
    /\ item = 0
    /\ url = 0
    /\ attempt = 0
    /\ success = FALSE
    /\ resourceNotFound = FALSE
    /\ successCount = 0
    /\ lastResult = "none"
    /\ dlCalls = 0
    /\ forceUpdate \in BOOLEAN
    /\ decision = NoDecision
    /\ okItems = {}
    /\ waitTime = 0
    /\ group = 1
    /\ NoHarness

\* the next pass of the group loop, or its end
ToNextGroup ==
    /\ group' = group + 1
    /\ opc' = IF group + 1 > MaxGroups THEN "exit" ELSE "group"

\* head of the group loop: the ctx.Err() test, os.MkdirAll and the call of
\* processGroup
GroupStep ==
    /\ opc = "group"
    /\ IF Cancelled
         THEN /\ opc' = "exit"
              /\ UNCHANGED <<group, item, successCount, okItems, dlCalls,
                             lastResult, decision>>
         ELSE \/ \* os.MkdirAll failed: continue
                 /\ ToNextGroup
                 /\ UNCHANGED <<item, successCount, okItems, dlCalls,
                                lastResult, decision>>
              \/ /\ opc' = "item"
                 /\ item' = 1
                 /\ successCount' = 0
                 /\ okItems' = {}
                 /\ dlCalls' = 0
                 /\ lastResult' = "none"
                 /\ decision' = NoDecision
                 /\ group' = group
    /\ UNCHANGED <<callVars, fsVars, trackerVars, goVars, histVars, apiVars,
                   ctxVars, sampVars, etaVars, copyVars, cacheVars, dirVars,
                   forceUpdate, orch, retries, urls, url, attempt, success,
                   resourceNotFound, waitTime>>
    /\ UNCHANGED stepFailed

\* processGroup has returned: successItems += success, and the next group
GroupReturn ==
    /\ opc = "done"
    /\ ToNextGroup
    /\ UNCHANGED <<callVars, fsVars, trackerVars, goVars, histVars, apiVars,
                   ctxVars, sampVars, etaVars, copyVars, cacheVars, dirVars,
                   forceUpdate, orch, retries, urls, item, url, attempt,
                   success, resourceNotFound, successCount, lastResult,
                   dlCalls, decision, okItems, waitTime>>
    /\ UNCHANGED stepFailed

NextGroups ==
    \/ GroupStep
    \/ GroupReturn
    \/ ItemStep
    \/ UrlStep
    \/ AttemptStep
    \/ WaitStep
    \/ CtxExpires

SpecGroups == InitGroups /\ [][NextGroups]_vars

\* ------------------------------------------------------------------------
\* updateSpeed on its own: a tracker whose counter grows by the writes of
\* the copy loop, half a buffer or a whole one, and is sampled by
\* updateSpeed after any time the ticker can have let pass.

\* time.Now().Sub(pt.LastUpdate) as an updateSpeed call can see it, in
\* milliseconds: none, one tick or a delayed tick
SampleElapsedMs == {0, ProgressUpdateInterval, 2 * ProgressUpdateInterval}

\* what one Write of the copy loop adds to the counter
BufferWrites == {DownloadBufferSize \div 2, DownloadBufferSize}

\* a new tracker that is only written to and sampled
InitSampling ==
    /\ variant = "downfile"
    /\ keepOldFile = FALSE
    /\ callNo = 0
    /\ pc = "client"
    /\ ret = "none"
    /\ dest = Absent
    /\ old = Absent
    /\ temps = [n \in 1..MaxCalls |-> Absent]
    /\ downloadSuccess = FALSE
    /\ bodyLeft = 0
    /\ err = "nil"
    /\ BytesCount = 0
    /\ LastSize = 0
    /\ Speed = 0
    /\ LowSpeedCount = 0
    /\ Done = FALSE
    /\ CtxDone = FALSE
    /\ CancelReason = ""
    /\ monitor = "none"
    /\ progress = "running"
    /\ destBefore = dest
    /\ oldBefore = old
    /\ prevRet = "none"
    /\ cancelCalls = 0
    /\ lowTicks = 0
    /\ readsAfterCancel = 0
    /\ samples = 0
    /\ summaries = 0
    /\ streakResets = 0
    /\ stepFailed = FALSE
    /\ NoClient
    /\ NoContext
    /\ NoCopy
    /\ NoCache
    /\ NoDir
    /\ NoOrchestrator
    /\ NoHarness

\* CountingWriter.Write with a buffer of the copy loop
WriteBuffer ==
    /\ pc = "client"
    /\ \E n \in BufferWrites :
         /\ BytesCount + n <= MaxTicks * DownloadBufferSize
         /\ BytesCount' = CountAfterWrite(BytesCount, n)
    /\ UNCHANGED <<callVars, fsVars, LastSize, Speed, LowSpeedCount, Done, CtxDone,
                   CancelReason, goVars, histVars, apiVars, ctxVars, orchVars,
                   stepFailed, sampVars, etaVars,
                   copyVars, cacheVars, dirVars>>

\* ProgressTracker.updateSpeed
UpdateSpeed ==
    /\ pc = "client"
    /\ samples < MaxTicks
    /\ samples' = samples + 1
    /\ \E e \in SampleElapsedMs :
         /\ Speed' = SpeedAfterUpdate(Speed, BytesCount, LastSize, e)
         /\ LastSize' = LastSizeAfterUpdate(BytesCount, LastSize, e)
         /\ lastElapsed' = e
         /\ seeded' = (seeded \/ e > 0)
    /\ UNCHANGED <<callVars, fsVars, BytesCount, LowSpeedCount, Done, CtxDone,
                   CancelReason, goVars, destBefore, oldBefore, prevRet,
                   cancelCalls, lowTicks, readsAfterCancel, summaries, streakResets,
                   apiVars, ctxVars, orchVars, stepFailed, etaVars,
                   copyVars, cacheVars, dirVars>>

NextSampling ==
    \/ WriteBuffer
    \/ UpdateSpeed

SpecSampling == InitSampling /\ [][NextSampling]_vars

\* A session as its two goroutines see it: the copy loop writes buffers,
\* the sampler and the watchdog tick, and Close ends the transfer.
NextSession ==
    \/ WriteBuffer
    \/ Close
    \/ MonitorSpeedTick
    \/ MonitorSpeedDone
    \/ DisplayProgressTick
    \/ DisplayProgressDone

\* a select whose case <-pt.Done or case <-pt.Ctx.Done() is ready for good
\* takes that case after finitely many ticks
SpecSessionFair ==
    /\ InitTracker
    /\ [][NextSession]_vars
    /\ WF_vars(MonitorSpeedDone)
    /\ WF_vars(DisplayProgressDone)

\* ------------------------------------------------------------------------
\* displayKnownSizeProgress as a function of FileSize, the counter and Speed.
\* Speed is a float64: here it is Speed / speedDen bytes per second, so
\* that speeds below one byte per second can be told apart.

\* MinValidSpeed, bytes per second
MinValidSpeed == 10

\* the 24 hours the estimate is capped at, in seconds
MaxRemainingSeconds == 86400

\* the parts of a byte per second Speed is counted in
SpeedUnits == {1, 10000}

EtaTotals == {1000, 100000, 2000000}

EtaTransferred == {0, 500, 1000}

EtaSpeeds == {0, 1, 5, 10, 11, 100, 1024, 100000, 100001, 110000}

\* FileSize, BytesCount and Speed at a call; the sizes are kept where
\* remainingBytes * den stays below 2^31
EtaInputs ==
    { i \in [total : EtaTotals, transferred : EtaTransferred,
             speed : EtaSpeeds, den : SpeedUnits] :
        /\ i.transferred <= i.total
        /\ (i.den > 1 => i.total <= 100000) }

\* mutant of HasValidSpeed: every positive speed gives an estimate
HasValidSpeed_AnyPositive(speed, den) == speed > 0

\* if pt.Speed > MinValidSpeed
HasValidSpeed(speed, den) == speed > MinValidSpeed * den

\* remainingSeconds, capped, as time.Duration(remainingSeconds) truncates it
RemainingSeconds(remainingBytes, speed, den) ==
    LET q == (remainingBytes * den) \div speed
    IN  IF q > MaxRemainingSeconds THEN MaxRemainingSeconds ELSE q

\* the line displayKnownSizeProgress prints: an estimate, "unknown" for a
\* speed that is positive but not valid, or "waiting for data"
ProgressLine(total, currentSize, speed, den) ==
    IF HasValidSpeed(speed, den)
      THEN [kind |-> "eta",
            seconds |-> RemainingSeconds(total - currentSize, speed, den)]
    ELSE IF speed > 0 THEN [kind |-> "unknown", seconds |-> 0]
    ELSE [kind |-> "waiting", seconds |-> 0]

\* a tracker of a known size at the moment of a rendering
InitEta ==
    /\ variant = "downfile"
    /\ keepOldFile = FALSE
    /\ callNo = 0
    /\ pc = "render"
    /\ ret = "none"
    /\ dest = Absent
    /\ old = Absent
    /\ temps = [n \in 1..MaxCalls |-> Absent]
    /\ downloadSuccess = FALSE
    /\ bodyLeft = 0
    /\ err = "nil"
    /\ \E i \in EtaInputs :
         /\ fileSize = i.total
         /\ BytesCount = i.transferred
         /\ Speed = i.speed
         /\ speedDen = i.den
    /\ LastSize = BytesCount
    /\ LowSpeedCount = 0
    /\ Done = FALSE
    /\ CtxDone = FALSE
    /\ CancelReason = ""
    /\ monitor = "none"
    /\ progress = "running"
    /\ destBefore = dest
    /\ oldBefore = old
    /\ prevRet = "none"
    /\ cancelCalls = 0
    /\ lowTicks = 0
    /\ readsAfterCancel = 0
    /\ samples = 0
    /\ summaries = 0
    /\ streakResets = 0
    /\ stepFailed = FALSE
    /\ NoClient
    /\ NoContext
    /\ NoCopy
    /\ NoCache
    /\ NoDir
    /\ NoOrchestrator
    /\ lastElapsed = 0
    /\ seeded = FALSE
    /\ shown = NoLine

\* ProgressTracker.displayKnownSizeProgress
DisplayKnownSizeProgress ==
    /\ pc = "render"
    /\ shown = NoLine
    /\ shown' = ProgressLine(fileSize, BytesCount, Speed, speedDen)
    /\ UNCHANGED <<callVars, fsVars, trackerVars, goVars, histVars, apiVars,
                   ctxVars, orchVars, stepFailed, sampVars, fileSize, speedDen,
                   copyVars, cacheVars, dirVars>>

NextEta ==
    \/ DisplayKnownSizeProgress

SpecEta == InitEta /\ [][NextEta]_vars

\* ------------------------------------------------------------------------
\* The copy loop on its own, with any reader, any writer and any context:
\* copyBuffer (downfile) and copyBufferWithContext (downutils)

\* everything outside the copy loop, the cache and the download directory
downloadVars == <<callVars, fsVars, BytesCount, LastSize, Speed, LowSpeedCount,
                  Done, CancelReason, goVars, histVars, apiVars, ctxVars,
                  orchVars, stepFailed, sampVars, etaVars>>

\* results any io.Reader can give for a buffer of MaxChunk bytes
ReaderResults == [nr : 0..MaxChunk, er : {"nil", "EOF", "read_error"}]

\* results any io.Writer can give for nr bytes
WriterResults(nr) == [nw : 0..nr, ew : {"nil", "write_error"}]

\* mutant of SelectsDone: the context is not looked at
SelectsDone_Never(v, done) == FALSE

\* select { case <-ctx.Done(): ...; default: ... }: the Done case is taken
\* whenever it is ready; copyBuffer has no select
SelectsDone(v, done) == v = "downutils" /\ done

\* written after a Write that accepted nw bytes
WrittenAfter(w, nw) == IF nw > 0 THEN w + nw ELSE w

\* position of a new pass
LoopHead(v) == IF v = "downutils" THEN "select" ELSE "read"

\* a call of the copy loop with nothing copied yet
InitCopy ==
    /\ variant \in Variants
    /\ dest = Absent
    /\ old = Absent
    /\ NoCall
    /\ NoClient
    /\ NoContext
    /\ written = 0
    /\ accepted = 0
    /\ loop = [NoIter EXCEPT !.at = LoopHead(variant)]
    /\ NoCache
    /\ NoDir
    /\ NoOrchestrator
    /\ NoHarness

\* the caller's context is cancelled, at any moment of the copy
CancelCopy ==
    /\ loop.at \in {"select", "read", "write"}
    /\ ~CtxDone
    /\ CtxDone' = TRUE
    /\ UNCHANGED <<downloadVars, copyVars, cacheVars, dirVars>>

\* the select at the head of a pass of copyBufferWithContext
LoopSelect ==
    /\ loop.at = "select"
    /\ loop' = IF SelectsDone(variant, CtxDone)
                 THEN [loop EXCEPT !.at = "returned", !.err = "canceled"]
                 ELSE [loop EXCEPT !.at = "read"]
    /\ UNCHANGED <<downloadVars, CtxDone, written, accepted, cacheVars, dirVars>>

\* nr, er := src.Read(buf), and the end of the pass when nr = 0
LoopRead ==
    /\ loop.at = "read"
    /\ loop.reads < MaxReads
    /\ \E r \in ReaderResults :
         LET res == IterResult(r.nr, r.er, 0, "nil")
             seen == [loop EXCEPT !.nr = r.nr, !.er = r.er, !.nw = 0,
                                  !.ew = "nil", !.wrote = FALSE,
                                  !.reads = @ + 1,
                                  !.ended = @ \/ r.er # "nil",
                                  !.readsAfter = IF CtxDone THEN @ + 1 ELSE @]
         IN  loop' = IF r.nr > 0 THEN [seen EXCEPT !.at = "write"]
                     ELSE IF res = "continue"
                       THEN [seen EXCEPT !.at = LoopHead(variant)]
                       ELSE [seen EXCEPT !.at = "returned", !.err = res]
    /\ UNCHANGED <<downloadVars, CtxDone, written, accepted, cacheVars, dirVars>>

\* nw, ew := dst.Write(buf[0:nr]), and the end of the pass
LoopWrite ==
    /\ loop.at = "write"
    /\ \E w \in WriterResults(loop.nr) :
         LET res == IterResult(loop.nr, loop.er, w.nw, w.ew)
             full == w.nw = loop.nr /\ w.ew = "nil"
             seen == [loop EXCEPT !.nw = w.nw, !.ew = w.ew, !.wrote = TRUE,
                                  !.allFull = @ /\ full,
                                  !.ended = @ \/ ~full,
                                  !.writesAfter = IF CtxDone THEN @ + 1 ELSE @]
         IN  /\ written' = WrittenAfter(written, w.nw)
             /\ accepted' = accepted + w.nw
             /\ loop' = IF res = "continue"
                          THEN [seen EXCEPT !.at = LoopHead(variant)]
                          ELSE [seen EXCEPT !.at = "returned", !.err = res]
    /\ UNCHANGED <<downloadVars, CtxDone, cacheVars, dirVars>>

NextCopy ==
    \/ CancelCopy
    \/ LoopSelect
    \/ LoopRead
    \/ LoopWrite

SpecCopy == InitCopy /\ [][NextCopy]_vars

\* ------------------------------------------------------------------------
\* The cache store (src/unnamed/part_001): a JSON file in the home directory
\* that maps absolute paths to the time of their last download.  Time is
\* counted in whole hours.

\* what the cache file can be: not there; there but os.ReadFile fails;
\* not JSON of the cache's shape; the JSON {"files": null}; or a cache
CacheFiles == {"missing", "unreadable", "invalid", "null_files", "valid"}

\* LoadDownloadCache.  json.Unmarshal sets a map to nil for a JSON null
LoadDownloadCache ==
    [nil |-> cacheFile = "null_files",
     files |-> IF cacheFile = "valid" THEN entries ELSE EmptyFiles]

\* what os.WriteFile can do: write the file; fail before touching it; or
\* fail after O_TRUNC has emptied it
SaveResults == {"ok", "denied", "truncated"}

\* the cache file after SaveDownloadCache(files) with the given result
FileAfterSave(files, res) ==
    IF res = "ok" THEN [file |-> "valid", entries |-> files]
    ELSE IF res = "truncated" THEN [file |-> "invalid", entries |-> EmptyFiles]
    ELSE [file |-> cacheFile, entries |-> entries]

\* mutant of Expired: an entry of exactly the limit counts as expired
Expired_AtLimit(age, limit) == age >= limit

\* now.Sub(lastDownload).Hours() > limitHours
Expired(age, limit) == age > limit

\* the test of CleanupExpiredCache for one entry
RemovedByCleanup(files, q, limit) ==
    files[q] >= 0 /\ (~onDisk[q] \/ Expired(now - files[q], limit))

\* the answer of NeedsUpdate(p, h)
NeedsUpdate(p, h) ==
    LET cache == LoadDownloadCache
    IN  IF ~onDisk[p] THEN TRUE
        ELSE IF cache.files[p] < 0 THEN TRUE
        ELSE Expired(now - cache.files[p], h)

\* the record of an operation on the present state
OpRecord(name, p, h) ==
    [NoOp EXCEPT !.op = name, !.path = p, !.hours = h, !.at = now,
                 !.before = entries, !.fileBefore = cacheFile,
                 !.onDiskBefore = {q \in 1..MaxPaths : onDisk[q]},
                 !.nilMap = LoadDownloadCache.nil]

\* a program start with any cache file and any files on disk; entries
\* carry the hour 0 and the clock starts there
InitCache ==
    /\ variant = "downfile"
    /\ dest = Absent
    /\ old = Absent
    /\ NoCall
    /\ NoClient
    /\ NoContext
    /\ NoCopy
    /\ cacheFile \in CacheFiles
    /\ entries \in [1..MaxPaths -> {-1, 0}]
    /\ cacheFile \in {"missing", "null_files"} => entries = EmptyFiles
    /\ onDisk \in [1..MaxPaths -> BOOLEAN]
    /\ now = 0
    /\ lastOp = NoOp
    /\ cacheOps = 0
    /\ NoDir
    /\ NoOrchestrator
    /\ NoHarness

\* an hour passes
Tick ==
    /\ now < MaxHours
    /\ lastOp.result # "panic"
    /\ now' = now + 1
    /\ UNCHANGED <<downloadVars, CtxDone, copyVars, dirVars,
                   cacheFile, entries, onDisk, lastOp, cacheOps>>

\* UpdateFileDownloadTime(storePath), which DownloadFile calls once the
\* rename has put the file in place.  The assignment to a nil map panics.
UpdateFileDownloadTime ==
    /\ cacheOps < MaxOps
    /\ lastOp.result # "panic"
    /\ \E p \in 1..MaxPaths :
         LET cache == LoadDownloadCache
             rec == OpRecord("UpdateFileDownloadTime", p, 0)
         IN  /\ onDisk' = [onDisk EXCEPT ![p] = TRUE]
             /\ IF cache.nil
                  THEN /\ lastOp' = [rec EXCEPT !.result = "panic"]
                       /\ UNCHANGED <<cacheFile, entries>>
                  ELSE \E res \in SaveResults :
                       LET after == FileAfterSave([cache.files EXCEPT ![p] = now], res)
                       IN  /\ cacheFile' = after.file
                           /\ entries' = after.entries
                           /\ lastOp' = [rec EXCEPT !.changed = TRUE, !.save = res,
                                              !.result = IF res = "ok" THEN "nil"
                                                         ELSE "error"]
    /\ cacheOps' = cacheOps + 1
    /\ UNCHANGED <<downloadVars, CtxDone, copyVars, dirVars, now>>

\* CleanupExpiredCache(limitHours); the result of SaveDownloadCache is
\* dropped
CleanupExpiredCache ==
    /\ cacheOps < MaxOps
    /\ lastOp.result # "panic"
    /\ \E limit \in 1..MaxHours :
         LET cache == LoadDownloadCache
             kept == [q \in 1..MaxPaths |->
                        IF RemovedByCleanup(cache.files, q, limit)
                          THEN -1 ELSE cache.files[q]]
             changed == kept # cache.files
             rec == OpRecord("CleanupExpiredCache", 0, limit)
         IN  IF changed
               THEN \E res \in SaveResults :
                    LET after == FileAfterSave(kept, res)
                    IN  /\ cacheFile' = after.file
                        /\ entries' = after.entries
                        /\ lastOp' = [rec EXCEPT !.changed = TRUE, !.save = res,
                                                  !.result = "returned"]
               ELSE /\ lastOp' = [rec EXCEPT !.result = "returned"]
                    /\ UNCHANGED <<cacheFile, entries>>
    /\ cacheOps' = cacheOps + 1
    /\ UNCHANGED <<downloadVars, CtxDone, copyVars, dirVars, onDisk, now>>

\* a call of NeedsUpdate(filePath, cacheExpireHours)
AskNeedsUpdate ==
    /\ cacheOps < MaxOps
    /\ lastOp.result # "panic"
    /\ \E p \in 1..MaxPaths, h \in 1..MaxHours :
         lastOp' = [OpRecord("NeedsUpdate", p, h) EXCEPT
                      !.result = IF NeedsUpdate(p, h) THEN "true" ELSE "false"]
    /\ cacheOps' = cacheOps + 1
    /\ UNCHANGED <<downloadVars, CtxDone, copyVars, dirVars,
                   cacheFile, entries, onDisk, now>>

NextCache ==
    \/ Tick
    \/ UpdateFileDownloadTime
    \/ CleanupExpiredCache
    \/ AskNeedsUpdate

SpecCache == InitCache /\ [][NextCache]_vars

\* ------------------------------------------------------------------------
\* CleanupIncompleteDownloads and FindFilesBySuffix (src/downfile/downutils.go)

\* what a place under the download directory can hold: nothing; a temp file
\* x.download, directly in the directory or in a subdirectory of it; a
\* destination file; a backup x.old; a directory whose name ends in .download
EntryKinds == {"absent", "download", "nested_download", "dest", "old",
               "dir_download"}

\* mutant of FoundBySuffix: backups are taken for temp files
FoundBySuffix_AlsoOld(kind) == kind \in {"download", "nested_download", "old"}

\* !info.IsDir() && strings.HasSuffix(info.Name(), ".download")
FoundBySuffix(kind) == kind \in {"download", "nested_download"}

\* a program start with any download directory
InitDir ==
    /\ variant = "downfile"
    /\ dest = Absent
    /\ old = Absent
    /\ NoCall
    /\ NoClient
    /\ NoContext
    /\ NoCopy
    /\ NoCache
    /\ dirExists \in BOOLEAN
    /\ tree \in [1..MaxSlots -> EntryKinds]
    /\ ~dirExists => tree = EmptyTree
    /\ cleanup = NoCleanup
    /\ NoOrchestrator
    /\ NoHarness

\* CleanupIncompleteDownloads(downloadDir): os.Stat, the walk of
\* FindFilesBySuffix, which fails as a whole when one directory cannot be
\* read, and os.Remove for every file found, whose failure is only printed
CleanupIncompleteDownloads ==
    /\ ~cleanup.called
    /\ LET rec == [NoCleanup EXCEPT !.called = TRUE, !.before = tree]
       IN  IF ~dirExists
             THEN /\ cleanup' = [rec EXCEPT !.ret = "nil"]
                  /\ tree' = tree
             ELSE \/ /\ cleanup' = [rec EXCEPT !.ret = "error", !.walked = TRUE]
                     /\ tree' = tree
                  \/ LET found == {i \in 1..MaxSlots : FoundBySuffix(tree[i])}
                     IN  \E failed \in SUBSET found :
                           /\ tree' = [i \in 1..MaxSlots |->
                                         IF i \in found \ failed
                                           THEN "absent" ELSE tree[i]]
                           /\ cleanup' = [rec EXCEPT !.ret = "nil",
                                                     !.walked = TRUE,
                                                     !.attempted = found,
                                                     !.failed = failed]
    /\ UNCHANGED <<downloadVars, CtxDone, copyVars, cacheVars, dirExists>>

NextDir ==
    \/ CleanupIncompleteDownloads

SpecDir == InitDir /\ [][NextDir]_vars

\* ------------------------------------------------------------------------
\* Properties

\* the non-nil results of DownloadFile
Errors == {GenericError, ErrResourceNotFound, ErrLowSpeed}

\* the last call has returned an error
ReturnedError == pc = "idle" /\ ret \in Errors

\* the whole body of a transfer
IsComplete(f) == f.xfer >= 1 /\ f.written = f.total

\* C1: whenever DownloadFile returns an error after it created its temp
\* file, that temp file does not exist any more.
TempRemovedOnError ==
    ReturnedError => temps[callNo] = Absent

\* C2: after a 404 answer DownloadFile returns RESOURCE_NOT_FOUND, the
\* destination is as it was, and the call's temp file does not exist.
NotFoundLeavesNothing ==
    (pc = "idle" /\ ret = ErrResourceNotFound) =>
        /\ dest = destBefore
        /\ temps[callNo] = Absent

\* C3: when the copy loop ended on a read error, DownloadFile returns a
\* generic error (low-speed only if the watchdog fired), the destination is
\* as it was before the call and the call's temp file is gone.
ReadErrorCleansUp ==
    (pc = "idle" /\ err = "read_error") =>
        /\ ret \in {GenericError, ErrLowSpeed}
        /\ (CancelReason = "" => ret = GenericError)
        /\ dest = destBefore
        /\ temps[callNo] = Absent

\* C3 witness: a call that had copied bytes over an existing destination
\* returned the generic error after a read error, the watchdog silent
ReadErrorMidStream ==
    /\ pc = "idle"
    /\ err = "read_error"
    /\ ret = GenericError
    /\ CancelReason = ""
    /\ BytesCount > 0
    /\ FileExists(destBefore)

\* the destination is absent, the file that was there at the start, or the
\* whole body of a transfer
DestWhole == dest \in {Absent, PreFile} \/ IsComplete(dest)

\* C4: the destination never holds a partly transferred body, and the only
\* step that puts content there is the rename of the temp file of a copy
\* that reached end of stream without error.
DestNeverPartial ==
    /\ []DestWhole
    /\ [][dest' # dest =>
            \/ dest' = Absent
            \/ pc = "rename" /\ err = "nil" /\ dest' = temps[callNo]]_vars

\* C4 witness: a second call failed after writing part of its body while the
\* destination still holds the whole body of the first transfer
PartialFailureBesideWholeDest ==
    /\ pc = "idle"
    /\ callNo = 2
    /\ ret \in Errors
    /\ err # "nil"
    /\ BytesCount > 0
    /\ dest.xfer = 1
    /\ IsComplete(dest)
    /\ dest.written > 0

\* C5: whenever DownloadFile returns an error the destination is as it was
\* before the call.
DestUntouchedOnError ==
    ReturnedError => dest = destBefore

\* C6: while a call replaces an existing destination file, the destination
\* path always holds the whole previous file or the whole new one.
DestReplacedAtomically ==
    (ret = "running" /\ FileExists(destBefore)) =>
        \/ dest = destBefore
        \/ dest.xfer = callNo /\ IsComplete(dest)

\* C7: after two successful calls in a row the destination holds the second
\* body and neither call's temp file remains; with keepOldFile the .old file
\* holds the first body, without it the .old path is as it was.
SecondTransferReplaces ==
    (pc = "idle" /\ ret = "nil" /\ prevRet = "nil") =>
        /\ dest.xfer = callNo
        /\ IsComplete(dest)
        /\ temps[callNo] = Absent
        /\ temps[callNo - 1] = Absent
        /\ IF keepOldFile
             THEN old.xfer = callNo - 1 /\ IsComplete(old) /\ old = destBefore
             ELSE old = oldBefore

\* C7 witness: the second success kept the first body as .old, replacing a
\* .old file that was there before
BackupReplaced ==
    /\ pc = "idle"
    /\ ret = "nil"
    /\ prevRet = "nil"
    /\ keepOldFile
    /\ oldBefore = PreOld
    /\ old.xfer = 1
    /\ dest.xfer = 2

\* C8: in the downfile revision the copy loop does at most one more Read
\* once the watchdog has cancelled, and the call then returns the low-speed
\* error with its temp file removed.
CancelHaltsCopy ==
    variant = "downfile" =>
        /\ readsAfterCancel <= 1
        /\ (pc = "idle" /\ readsAfterCancel >= 1) =>
              (ret = ErrLowSpeed /\ temps[callNo] = Absent)

\* C9: the downutils watchdog cancels exactly when the streak has lasted
\* LowSpeedDuration, stores the low-speed reason, calls Cancel once and has
\* returned; nothing cancels again in that session.
WatchdogFiresOnce ==
    variant = "downutils" =>
        /\ cancelCalls <= 1
        /\ (CancelReason = ErrLowSpeed) = (cancelCalls = 1)
        /\ (LowSpeedCount * SpeedCheckInterval >= LowSpeedDuration) = (cancelCalls = 1)
        /\ (cancelCalls = 1) =>
              /\ monitor = "returned"
              /\ lowTicks = LowSpeedCount
              /\ (LowSpeedCount - 1) * SpeedCheckInterval < LowSpeedDuration

\* C9 witness: the watchdog has fired and the sampler went on to measure a
\* speed above the floor
FiredThenSpeedRecovered ==
    /\ variant = "downutils"
    /\ cancelCalls = 1
    /\ CancelReason = ErrLowSpeed
    /\ LowSpeedCount = 3
    /\ progress = "running"
    /\ Speed >= MinRequiredSpeed

\* C10: in the downfile revision a low-speed reason is stored only after
\* below-threshold ticks that add up to LowSpeedDuration.
LowSpeedNeedsDuration ==
    (variant = "downfile" /\ CancelReason = ErrLowSpeed) =>
        lowTicks * SpeedCheckInterval >= LowSpeedDuration

\* C11: in the downutils revision LowSpeedCount is the number of consecutive
\* below-threshold ticks: a tick that sees Speed >= MinRequiredSpeed puts it
\* back to 0, and a low-speed reason is stored only after
\* ceil(LowSpeedDuration / SpeedCheckInterval) such ticks in a row.
RecoveryResetsStreak ==
    variant = "downutils" =>
        /\ LowSpeedCount = lowTicks
        /\ (streakResets > 0 /\ lowTicks = 0) => LowSpeedCount = 0
        /\ CancelReason = ErrLowSpeed =>
              lowTicks * SpeedCheckInterval >= LowSpeedDuration

\* C11 witness: a tick at or above the floor has ended a streak of low
\* ticks, and nothing was cancelled
StreakResetByRecovery ==
    /\ variant = "downutils"
    /\ streakResets >= 1
    /\ LowSpeedCount = 0
    /\ Speed >= MinRequiredSpeed
    /\ monitor = "running"
    /\ CancelReason = ""
    /\ cancelCalls = 0

\* positions of DownloadFile at which the copy loop of the session has returned
CopyReturned == {"reason", "summary", "rm_backup", "backup", "rm_old", "rename", "idle"}

\* C12: once the copy loop has returned, and so once Done is closed, the
\* watchdog neither stores a cancel reason nor calls Cancel in that session.
NoCancelAfterCompletion ==
    [][(pc \in CopyReturned /\ callNo' = callNo) =>
          /\ cancelCalls' = cancelCalls
          /\ CancelReason' = CancelReason]_vars

\* C14: a call whose copy loop reached end of stream without error does not
\* return the low-speed error: it goes on to commit its temp file.
FullCopyNotLowSpeed ==
    (pc = "idle" /\ err = "nil") => ret # ErrLowSpeed

\* C20: a session starts with BytesCount = 0; within the session the counter
\* never goes down, and it changes only in the step of the copy loop that
\* writes through the CountingWriter, by the positive number of bytes the
\* sink accepted.
BytesCountOnlyGrows ==
    /\ [][(pc = "request" /\ monitor' = "running") => BytesCount' = 0]_vars
    /\ [][callNo' = callNo =>
            /\ BytesCount' >= BytesCount
            /\ BytesCount' # BytesCount =>
                  /\ pc = "copy_read"
                  /\ BytesCount' - BytesCount =
                        temps'[callNo].written - temps[callNo].written]_vars

\* C20 witness: the counter stands at a full buffer in the middle of the
\* copy, with a sample taken and a watchdog tick passed
CountedWhileSampled ==
    /\ pc = "copy_read"
    /\ BytesCount = DownloadBufferSize
    /\ samples >= 1
    /\ lowTicks >= 1
    /\ monitor = "running"

\* C13: once a tracker's CancelReason is not empty, no later step changes it.
FirstReasonWins ==
    [][CancelReason # "" => CancelReason' = CancelReason]_vars

\* C18: after any number of Write calls BytesCount is the sum of the n values
\* the underlying sink returned.
CounterIsSinkSum ==
    BytesCount = sinkSum

\* C18 witness: the last of several writes was cut short by the sink without
\* an error, after bytes had been counted
ShortWriteCounted ==
    /\ writeCalls = MaxWrites
    /\ lastWrite.sinkErr = "nil"
    /\ lastWrite.sinkN > 0
    /\ lastWrite.sinkN < Len(lastWrite.given)
    /\ BytesCount > lastWrite.sinkN

\* C19: every Write hands the sink exactly the slice it was given, once,
\* and returns exactly the (n, err) the sink returned.
WriteIsTransparent ==
    writeCalls > 0 =>
        /\ lastWrite.forwarded = lastWrite.given
        /\ lastWrite.sinkCalls = 1
        /\ lastWrite.n = lastWrite.sinkN
        /\ lastWrite.err = lastWrite.sinkErr

\* C19 witness: the sink took part of the slice and failed, and the caller
\* got that partial count and that error
PartialWriteReported ==
    /\ writeCalls > 0
    /\ Len(lastWrite.given) = MaxChunk
    /\ lastWrite.n > 0
    /\ lastWrite.n < Len(lastWrite.given)
    /\ lastWrite.err = "write_error"

\* C15: once DownloadFile has returned RESOURCE_NOT_FOUND for a URL, the
\* orchestrator makes no further call for that URL and does not start a
\* backoff wait, whatever retries and the attempt number are.
NotFoundEndsRetries ==
    [][/\ dlCalls' # dlCalls => lastResult # ErrResourceNotFound
       /\ lastResult' = ErrResourceNotFound => opc' # "wait"]_vars

\* C15 witness: a 404 on an attempt that was not the last one allowed, and
\* the orchestrator has left the URL
NotFoundBeforeLastAttempt ==
    /\ lastResult = ErrResourceNotFound
    /\ attempt < retries
    /\ opc \in {"item", "done"}
    /\ dlCalls >= 1

\* C16: when a URL yields RESOURCE_NOT_FOUND and the item has further
\* download-urls, the orchestrator goes on to the next URL of that item.
NotFoundTriesNextUrl ==
    [][(dlCalls' # dlCalls /\ lastResult' = ErrResourceNotFound /\ url < urls[item]) =>
          /\ opc' = "url"
          /\ item' = item
          /\ url' = url + 1]_vars

\* C16, amended: when a URL yields RESOURCE_NOT_FOUND the orchestrator
\* leaves the item: it sets resourceNotFound, tries no further URL of that
\* item even when more are configured, and goes to the next item or returns.
NotFoundEndsItem ==
    [][(dlCalls' # dlCalls /\ lastResult' = ErrResourceNotFound) =>
          /\ resourceNotFound'
          /\ item' = item + 1
          /\ url' = url
          /\ opc' \in {"item", "done"}
          /\ successCount' = successCount]_vars

\* C16 witness: an item was left on a 404 with URLs still untried
NotFoundSkippedUrls ==
    /\ lastResult = ErrResourceNotFound
    /\ resourceNotFound
    /\ ~success
    /\ item >= 2
    /\ opc \in {"item", "done"}
    /\ url < urls[item - 1]

\* C17: once the context of main is done, the copy loop of the running
\* DownloadFile begins at most the Read that was in flight, and the call
\* returns an error with its temp file removed.
CtxStopsTransfer ==
    /\ readsAfterCtxDone <= 1
    /\ (pc = "idle" /\ readsAfterCtxDone >= 1) =>
          (ret \in Errors /\ temps[callNo] = Absent)

\* C30: every failure inside DownloadFile is reflected in its return value:
\* a call that returned nil had no failed step, the update of the
\* download-time cache included.
NilMeansNoStepFailed ==
    (pc = "idle" /\ callNo >= 1 /\ ret = "nil") => ~stepFailed

\* C24: a summary line is printed only by the DisplaySummary call of a
\* transfer that completed normally (empty cancel reason, no copy error);
\* a call that returns low-speed-cancelled or had a copy error has printed
\* none, and a call prints at most one.
SummaryOnlyOnCompletion ==
    /\ [][summaries' > summaries =>
             /\ pc = "summary"
             /\ CancelReason = ""
             /\ err = "nil"
             /\ summaries' = 1]_vars
    /\ [](/\ summaries <= 1
          /\ (pc = "idle" /\ ret = ErrLowSpeed) => summaries = 0
          /\ err # "nil" => summaries = 0)

\* C24 witness: the watchdog stored its reason between the reason check of
\* DownloadFile and DisplaySummary, and the summary was suppressed
SummarySuppressed ==
    /\ downloadSuccess
    /\ CancelReason = ErrLowSpeed
    /\ summaries = 0

\* C26: within a session every field has one writing activity: BytesCount
\* is changed only by a step of the copy loop, by the bytes the counting
\* writer passed to the file; LastSize and Speed only by a tick of the
\* sampler; LowSpeedCount and CancelReason only by a tick of the watchdog;
\* and no step writes the fields of two activities.
SingleWriterOwnership ==
    [][callNo' = callNo =>
         LET copyWrites == BytesCount' # BytesCount
             samplerWrites == LastSize' # LastSize \/ Speed' # Speed
             watchdogWrites == LowSpeedCount' # LowSpeedCount
                                 \/ CancelReason' # CancelReason
         IN  /\ copyWrites =>
                   /\ pc = "copy_read"
                   /\ BytesCount' - BytesCount
                        = temps'[callNo].written - temps[callNo].written
                   /\ ~samplerWrites /\ ~watchdogWrites
                   /\ monitor' = monitor /\ progress' = progress
             /\ samplerWrites =>
                   /\ progress = "running"
                   /\ samples' = samples + 1
                   /\ pc' = pc
                   /\ ~copyWrites /\ ~watchdogWrites
             /\ watchdogWrites =>
                   /\ monitor = "running"
                   /\ pc' = pc /\ samples' = samples
                   /\ ~copyWrites /\ ~samplerWrites]_vars

\* C26 witness: a transfer in which the copy loop, the sampler and the
\* watchdog have each written their fields
AllThreeHaveWritten ==
    /\ pc = "copy_read"
    /\ BytesCount > 0
    /\ LastSize > 0
    /\ Speed > 0
    /\ LowSpeedCount > 0

RetryAndFallThroughOrder ==
    [][orch = "ProcessDownItems" =>
         /\ dlCalls' # dlCalls =>
               /\ opc = "attempt"
               /\ ~decision.skipped
               /\ ~success
               /\ url \in 1..urls[item]
               /\ attempt \in 1..retries
               /\ lastResult' = "nil" => (success' /\ item' = item + 1)
         /\ attempt' # attempt =>
               \/ opc = "url" /\ attempt' = 1
               \/ /\ opc = "wait"
                  /\ attempt' = attempt + 1
                  /\ lastResult \notin {"nil", "none"}
         /\ url' # url =>
               \/ opc = "item" /\ url' = 1
               \/ /\ url' = url + 1
                  /\ item' = item
                  /\ ~success'
                  /\ \/ retries < 1
                     \/ /\ dlCalls' = dlCalls + 1
                        /\ attempt = retries
                        /\ lastResult' # "nil"
         /\ retries < 1 =>
               /\ dlCalls' = dlCalls
               /\ ~success'
               /\ successCount' # successCount => decision'.skipped]_vars

\* C28 witness: ProcessDownItems is at the second URL of an item after all
\* the attempts of the first URL failed, more than one attempt each
SecondUrlAfterRetries ==
    /\ orch = "ProcessDownItems"
    /\ retries = 2
    /\ url = 2
    /\ opc = "attempt"
    /\ attempt = 2
    /\ dlCalls = 3
    /\ item = 1

\* C29: the tally is the number of items that were skipped as up to date
\* or had a successful DownloadFile call: it grows by one, only on a skip
\* or a nil result, at most once per item, and never exceeds the number of
\* items; an item left after failures or a failed MakeDirs adds nothing.
TallyCountsItemsOnce ==
    /\ [](/\ successCount = Cardinality(okItems)
          /\ okItems \subseteq 1..MaxItems
          /\ \A i \in okItems : i <= item
          /\ successCount \in 0..MaxItems)
    /\ [][successCount' # successCount =>
             /\ successCount' = successCount + 1
             /\ item \notin okItems
             /\ item' = item + 1
             /\ \/ opc = "item" /\ decision'.skipped /\ dlCalls' = dlCalls
                \/ opc = "attempt" /\ dlCalls' # dlCalls /\ lastResult' = "nil"]_vars

\* C29 witness: the loop has returned 1 for two items: every attempt on
\* the first failed and the second was downloaded
OneOfTwoCounted ==
    /\ opc = "done"
    /\ item = MaxItems + 1
    /\ successCount = 1
    /\ okItems = {2}
    /\ ~decision.skipped
    /\ dlCalls >= 2

\* C21: Speed is never negative: whatever the counter has grown by and
\* whatever time has passed between the calls of updateSpeed, the smoothed
\* speed after each call is at least 0, and the size the next difference
\* is taken from never exceeds the counter.
SpeedNeverNegative ==
    /\ Speed >= 0
    /\ LastSize >= 0
    /\ LastSize <= BytesCount

\* C21 witness: three samples of a growing counter, the last of which saw
\* no new bytes, have left a positive smoothed speed
SampledThreeTimes ==
    /\ pc = "client"
    /\ samples = 3
    /\ lastElapsed > 0
    /\ LastSize = BytesCount
    /\ BytesCount > 0
    /\ Speed > 0

\* C22: updateSpeed is an average seeded by the first sample only: a call
\* that sees no time elapsed changes neither Speed nor LastSize; the first
\* call that sees time elapsed sets Speed to the instantaneous speed; every
\* later one sets it to 0.7 * Speed + 0.3 * instantaneous speed, also when
\* Speed is 0.
SeededByFirstSampleOnly ==
    [][samples' = samples + 1 /\ pc = "client" =>
         IF lastElapsed' = 0
           THEN Speed' = Speed /\ LastSize' = LastSize
           ELSE LET instant == ((BytesCount - LastSize) * 1000) \div lastElapsed'
                IN  /\ LastSize' = BytesCount
                    /\ Speed' = IF seeded THEN (7 * Speed + 3 * instant) \div 10
                                         ELSE instant]_vars

\* C23: for a known size the estimate is min(remaining / speed, 86400)
\* seconds at every positive speed.
EtaForEveryPositiveSpeed ==
    (shown.kind # "none" /\ Speed > 0) =>
        LET q == ((fileSize - BytesCount) * speedDen) \div Speed
        IN  /\ shown.kind = "eta"
            /\ shown.seconds = IF q > 86400 THEN 86400 ELSE q

\* C23, amended: an estimate is made only at a speed above MinValidSpeed,
\* 10 bytes per second; it is then min(remaining / speed, 86400) seconds
\* cut to whole seconds, 5 s for 500 of 1000 bytes at 100 bytes per second,
\* and never above 86400.  At a positive speed of at most 10 bytes per
\* second the line shows the remaining time as unknown, at speed 0 that
\* data is waited for.
EtaOnlyAboveMinValidSpeed ==
    shown.kind # "none" =>
        LET r == (fileSize - BytesCount) * speedDen
            s == shown.seconds
        IN  /\ Speed > MinValidSpeed * speedDen =>
                  /\ shown.kind = "eta"
                  /\ s \in 0..MaxRemainingSeconds
                  /\ IF s < MaxRemainingSeconds
                       THEN s * Speed <= r /\ r < (s + 1) * Speed
                       ELSE r \div Speed >= MaxRemainingSeconds
            /\ (Speed > 0 /\ Speed <= MinValidSpeed * speedDen) =>
                  shown.kind = "unknown"
            /\ Speed = 0 => shown.kind = "waiting"
            /\ (fileSize = 1000 /\ BytesCount = 500 /\ Speed = 100 /\ speedDen = 1) =>
                  s = 5

\* C23 witness: at 0.0001 bytes per second with 100000 bytes to go the
\* line was rendered without an estimate
TinySpeedShowsNoEta ==
    /\ shown.kind = "unknown"
    /\ Speed = 1
    /\ speedDen = 10000
    /\ fileSize - BytesCount = 100000

\* C25: once Done is closed or the cancellation of the session is
\* signalled, the watchdog and the sampler both return; and a goroutine
\* that has returned stays returned and makes no further sample, streak
\* update or cancellation.
GoroutinesStop ==
    /\ (Done \/ CtxDone) ~> (monitor = "returned" /\ progress = "returned")
    /\ [][monitor = "returned" =>
             UNCHANGED <<monitor, LowSpeedCount, lowTicks, streakResets,
                         cancelCalls, CtxDone>>]_vars
    /\ [][progress = "returned" =>
             UNCHANGED <<progress, samples, Speed, LastSize>>]_vars

\* C25 witness: the watchdog cancelled the session, Done was never closed,
\* and the sampler returned on the cancellation after having sampled
BothReturnedOnCancel ==
    /\ pc = "client"
    /\ ~Done
    /\ CtxDone
    /\ samples > 0
    /\ monitor = "returned"
    /\ progress = "returned"

\* C35: a DownloadFile call that returns low-speed-cancelled is handled
\* like one that returns a generic error: while attempts remain the
\* orchestrator waits 2 * attempt seconds and makes the next attempt on the
\* same URL; after the last attempt it waits no more and goes to the next
\* URL of the item, or leaves the item when there is none; the item is not
\* counted and not marked as missing.
LowSpeedRetriedLikeFailure ==
    [][/\ (dlCalls' # dlCalls /\ lastResult' \in {ErrLowSpeed, GenericError}) =>
            /\ resourceNotFound' = resourceNotFound
            /\ success' = success
            /\ successCount' = successCount
            /\ IF attempt < retries
                 THEN /\ opc' = "wait"
                      /\ waitTime' = 2 * attempt
                      /\ <<item, url, attempt>>' = <<item, url, attempt>>
                 ELSE /\ waitTime' = waitTime
                      /\ IF url < urls[item]
                           THEN url' = url + 1 /\ opc' = "url" /\ item' = item
                           ELSE item' = item + 1 /\ opc' \in {"item", "done"}
       /\ (opc = "wait" /\ attempt' # attempt) =>
            /\ attempt' = attempt + 1
            /\ opc' = "attempt"
            /\ <<item, url>>' = <<item, url>>]_vars

\* C35 witness: after a low-speed cancellation of the first attempt and a
\* wait of 2 seconds the second attempt on the same URL is about to be made
LowSpeedRetried ==
    /\ opc = "attempt"
    /\ attempt = 2
    /\ url = 1
    /\ dlCalls = 1
    /\ lastResult = ErrLowSpeed
    /\ waitTime = 2

\* C33: the counter of the watchdog.  LowSpeedCount is never negative and
\* LowSpeedCount * SpeedCheckInterval never exceeds LowSpeedDuration rounded
\* up to a whole tick (3 ticks); the low-speed reason is stored only in
\* states where LowSpeedCount * SpeedCheckInterval >= LowSpeedDuration; and
\* within a session LowSpeedCount is changed by a tick of MonitorSpeed only
\* (a new session starts with a new tracker whose counter is 0).
WatchdogCounterInvariant ==
    /\ [](variant = "downutils" =>
            /\ 0 <= LowSpeedCount
            /\ LowSpeedCount * SpeedCheckInterval
                  <= ((LowSpeedDuration + SpeedCheckInterval - 1)
                        \div SpeedCheckInterval) * SpeedCheckInterval
            /\ LowSpeedCount <= 3
            /\ CancelReason = ErrLowSpeed =>
                  LowSpeedCount * SpeedCheckInterval >= LowSpeedDuration)
    /\ [][LowSpeedCount' # LowSpeedCount =>
            IF callNo' = callNo
              THEN /\ monitor = "running"
                   /\ pc' = pc
                   /\ progress' = progress
                   /\ <<BytesCount, LastSize, Speed>>' = <<BytesCount, LastSize, Speed>>
              ELSE LowSpeedCount' = 0]_vars

\* C33 witness: the counter has reached its largest value, the reason is
\* stored and the copy loop has not yet seen the cancellation
CounterAtLimit ==
    /\ variant = "downutils"
    /\ LowSpeedCount = 3
    /\ CancelReason = ErrLowSpeed
    /\ monitor = "returned"
    /\ pc = "copy_select"

\* C34: a DownloadFile call that created a tracker and started the two
\* goroutines closes Done exactly once: Done is open until the call returns,
\* the returning step closes it whatever the result, and no other step of
\* the call touches it, so it is never closed twice; a call that returns
\* before the tracker exists closes nothing.  Between calls no session has
\* an open Done, so at most one session has one at any time.
DoneClosedOncePerSession ==
    /\ []((pc = "idle" /\ monitor # "none") => Done)
    /\ []((pc # "idle" /\ monitor # "none") => ~Done)
    /\ [][callNo' = callNo =>
            IF pc # "idle" /\ pc' = "idle" /\ monitor # "none"
              THEN ~Done /\ Done'
              ELSE Done' = Done]_vars

\* C34 witness: the second call has returned after a low-speed cancellation
\* with its Done closed, the first one having succeeded
SecondSessionClosed ==
    /\ callNo = 2
    /\ pc = "idle"
    /\ prevRet = "nil"
    /\ ret = ErrLowSpeed
    /\ monitor # "none"
    /\ Done

\* C31: copyBufferWithContext looks at the context before every Read.  A
\* pass that starts with the context done makes no Read and no Write and
\* returns what was written so far with the context's error; so at most one
\* Read and one Write are made after the cancellation, and written is the
\* number of bytes the destination accepted.
CancellationCheckedBeforeRead ==
    /\ [](variant = "downutils" =>
            /\ loop.readsAfter <= 1
            /\ loop.writesAfter <= 1
            /\ written = accepted)
    /\ [][(variant = "downutils" /\ loop.at = "select" /\ CtxDone
            /\ loop' # loop) =>
             /\ loop'.at = "returned"
             /\ loop'.err = "canceled"
             /\ loop'.reads = loop.reads
             /\ loop'.wrote = loop.wrote
             /\ <<written, accepted>>' = <<written, accepted>>]_vars
    /\ [][(variant = "downutils" /\ loop'.reads # loop.reads) =>
             /\ loop.at = "read"
             /\ loop.err = "nil"]_vars

\* C31 witness: the context was cancelled between the select and the Read;
\* one Read and one Write followed, and the next pass returned the error
CancelledAfterOneMore ==
    /\ variant = "downutils"
    /\ loop.at = "returned"
    /\ loop.err = "canceled"
    /\ loop.readsAfter = 1
    /\ loop.writesAfter = 1
    /\ written > 0

\* C32: the results of the copy loop when it is not cancelled, with any
\* reader and any writer.  It returns nil exactly when the source reported
\* end of stream and every Write accepted all the bytes read, without an
\* error; a Write error is returned as it is; a Write that accepts fewer
\* bytes than were read, without an error, gives io.ErrShortWrite; a read
\* error other than EOF is returned as it is once the bytes that came with
\* it have been written; written is the sum of the bytes the destination
\* accepted; and no Read follows the first error or end of stream.
CopyLoopOutcomes ==
    /\ []((loop.at = "returned" /\ loop.err # "canceled") =>
            /\ (loop.err = "nil") = (loop.er = "EOF" /\ loop.allFull)
            /\ (loop.wrote /\ loop.ew # "nil") => loop.err = loop.ew
            /\ (loop.wrote /\ loop.ew = "nil" /\ loop.nw < loop.nr) =>
                  loop.err = "short_write"
            /\ (loop.er = "read_error"
                  /\ (loop.wrote => loop.ew = "nil" /\ loop.nw = loop.nr)) =>
                  /\ loop.err = "read_error"
                  /\ loop.nr > 0 => loop.wrote)
    /\ [](written = accepted)
    /\ [][loop'.reads # loop.reads => ~loop.ended]_vars

\* C32 witness: after a full pass, a Read gave bytes together with a read
\* error, the bytes were written and the read error was returned
ReadErrorAfterItsBytes ==
    /\ loop.at = "returned"
    /\ loop.reads = 2
    /\ loop.er = "read_error"
    /\ loop.nr > 0
    /\ loop.wrote
    /\ loop.err = "read_error"
    /\ written = accepted
    /\ written > loop.nr

CleanupLeavesLiveEntries ==
    /\ [][(cacheOps' # cacheOps /\ lastOp'.op = "CleanupExpiredCache") =>
             LET had == IF cacheFile = "valid" THEN entries ELSE EmptyFiles
                 has == IF cacheFile' = "valid" THEN entries' ELSE EmptyFiles
                 live(q) == /\ had[q] >= 0
                            /\ onDisk[q]
                            /\ now - had[q] <= lastOp'.hours
             IN  /\ \A q \in 1..MaxPaths :
                      has[q] = IF live(q) THEN had[q] ELSE -1
                 /\ lastOp'.save # "none" =>
                      \E q \in 1..MaxPaths : had[q] >= 0 /\ ~live(q)]_vars
    /\ [][(cacheOps' # cacheOps /\ lastOp'.op = "NeedsUpdate") =>
             LET had == IF cacheFile = "valid" THEN entries ELSE EmptyFiles
                 q == lastOp'.path
             IN  (lastOp'.result = "true")
                   = (~onDisk[q] \/ had[q] < 0 \/ now - had[q] > lastOp'.hours)]_vars

\* C39: LoadDownloadCache never gives a nil map; with a cache file that is
\* missing, unreadable or not valid JSON it gives an empty cache, so that
\* NeedsUpdate is true for every path and a following
\* UpdateFileDownloadTime writes a cache that holds the updated entry only.
LoadNeverNil ==
    /\ [](~lastOp.nilMap /\ lastOp.result # "panic")
    /\ [][(cacheOps' # cacheOps
            /\ cacheFile \in {"missing", "unreadable", "invalid"}) =>
             /\ lastOp'.op = "NeedsUpdate" => lastOp'.result = "true"
             /\ (lastOp'.op = "UpdateFileDownloadTime" /\ lastOp'.save = "ok") =>
                   /\ cacheFile' = "valid"
                   /\ entries' = [EmptyFiles EXCEPT ![lastOp'.path] = now]]_vars

\* C40: CleanupIncompleteDownloads(dir) returns nil and changes nothing when
\* dir does not exist; otherwise it tries to remove every file under dir
\* whose name ends in .download, goes on after a removal that fails, and
\* leaves every other entry as it was; when all removals succeed no
\* .download file is left.
CleanupRemovesEveryIncomplete ==
    cleanup.called =>
        LET incomplete == {i \in 1..MaxSlots :
                             cleanup.before[i] \in {"download", "nested_download"}}
        IN  /\ ~dirExists => (cleanup.ret = "nil" /\ tree = cleanup.before)
            /\ dirExists =>
                  /\ cleanup.attempted = incomplete
                  /\ \A i \in (1..MaxSlots) \ incomplete :
                       tree[i] = cleanup.before[i]
                  /\ cleanup.failed = {} =>
                       \A i \in 1..MaxSlots :
                         tree[i] \notin {"download", "nested_download"}

\* C40 as amended: the same, except that a walk that fails makes the
\* function return an error without trying to remove anything.
CleanupUnlessWalkFails ==
    cleanup.called =>
        LET incomplete == {i \in 1..MaxSlots :
                             cleanup.before[i] \in {"download", "nested_download"}}
        IN  /\ ~dirExists => (cleanup.ret = "nil" /\ tree = cleanup.before)
            /\ (dirExists /\ cleanup.ret = "error") =>
                  /\ cleanup.attempted = {}
                  /\ tree = cleanup.before
            /\ (dirExists /\ cleanup.ret = "nil") =>
                  /\ cleanup.attempted = incomplete
                  /\ \A i \in 1..MaxSlots :
                       tree[i] = IF i \in incomplete \ cleanup.failed
                                 THEN "absent" ELSE cleanup.before[i]
                  /\ cleanup.failed = {} =>
                       \A i \in 1..MaxSlots :
                         tree[i] \notin {"download", "nested_download"}
            /\ cleanup.ret \in {"nil", "error"}

\* C40 witness: of two temp files one was removed and the removal of the
\* other failed; the backup was left alone and nil was returned
OneRemovalFailed ==
    /\ cleanup.called
    /\ cleanup.ret = "nil"
    /\ dirExists
    /\ \E i, j, k \in 1..MaxSlots :
         /\ cleanup.before[i] = "download" /\ tree[i] = "absent"
         /\ cleanup.before[j] = "nested_download" /\ tree[j] = "nested_download"
         /\ cleanup.before[k] = "old" /\ tree[k] = "old"
====
